---- MODULE Spec2Model ----
(***************************************************************************)
(* NESQuik: the 6502 code generator of nesquik/compiler.py, the runtime    *)
(* subroutines of nesquik/lib.py, and the execution of the emitted         *)
(* instruction list on a 6502 (the machine the test-suite steps).          *)
(*                                                                         *)
(* The generator is a tree walk that threads one generator record `g`      *)
(* (the fields of the CodeGenerator instance, the attributes it grafts on  *)
(* the AST nodes, and the instruction list of the Program).  AST nodes are *)
(* identified by their path from the root.                                 *)
(***************************************************************************)
EXTENDS Integers, Sequences, FiniteSets, TLC

\* ------------------------------------------------------------------ bounds
\* operands are drawn from 0..MaxOperand, 255-MaxOperand..255 and 127, 128
MaxOperand == 2
\* loop limits of the while programs are drawn from 0..MaxIter
MaxIter == 3
\* cap of the per-instruction execution counters
MaxHits == 64
\* formal arguments of a function
MaxArgs == 3
\* local variables of a function (above 5 the reservation goes through SBC)
MaxLocals == 6
\* conditional branches of an if statement
MaxBranches == 2

\* ------------------------------------------------------- program constants
base_ptr == 2
arg_base_ptr == 4
tmp_ptr == 6
reserved == 8
\* first argument offset in func(): saved bp + return address
ArgOffset0 == 3

\* ---------------------------------------------------------------- helpers
Max(a, b) == IF a >= b THEN a ELSE b
Abs(a) == IF a >= 0 THEN a ELSE 0 - a

\* dict update / lookup with insertion
Put(f, k, v) == (k :> v) @@ f
Has(f, k) == k \in DOMAIN f

EmptyMap == [x \in {} |-> 0]

RECURSIVE SumSeq(_)
SumSeq(s) == IF s = <<>> THEN 0 ELSE Head(s) + SumSeq(Tail(s))

\* ------------------------------------------------------------------- AST
\* A node of the tree lark hands to the generator: `data` is the rule name,
\* `name` the NAME/PTRNAME token text (without the leading `*`), `ptr` whether
\* that token is a PTRNAME, `val` the value of the NUMBER token, `ch` the
\* sub-trees in order.
N(data, name, ptr, val, ch) ==
    [data |-> data, name |-> name, ptr |-> ptr, val |-> val, ch |-> ch]

Imm(v) == N("imm", "", FALSE, v, <<>>)
Ref(n) == N("ref", n, FALSE, 0, <<>>)
GetRef(n) == N("getref", n, FALSE, 0, <<>>)
Bin(op, l, r) == N(op, "", FALSE, 0, <<l, r>>)
Neg(e) == N("neg", "", FALSE, 0, <<e>>)
Call(n, args) == N("call", n, FALSE, 0, args)
Ret(e) == N("ret", "", FALSE, 0, <<e>>)
Assign(n, e) == N("assign", n, FALSE, 0, <<e>>)
Var(n) == N("var", n, FALSE, 0, <<>>)
VarInit(n, e) == N("var", n, FALSE, 0, <<e>>)
PtrVar(n) == N("var", n, TRUE, 0, <<>>)
Array(n, len) == N("array", n, FALSE, len, <<>>)
Arg(n) == N("arg", n, FALSE, 0, <<>>)
PtrArg(n) == N("arg", n, TRUE, 0, <<>>)
Body(stmts) == N("body", "", FALSE, 0, stmts)
IfBranch(e, stmts) == N("if_branch", "", FALSE, 0, <<e, Body(stmts)>>)
ElifBranch(e, stmts) == N("elif_branch", "", FALSE, 0, <<e, Body(stmts)>>)
ElseBranch(stmts) == N("else_branch", "", FALSE, 0, <<Body(stmts)>>)
IfStmt(branches) == N("if_stmt", "", FALSE, 0, branches)
While(e, stmts) == N("while_stmt", "", FALSE, 0, <<e, Body(stmts)>>)
Deref(n) == N("deref", n, FALSE, 0, <<>>)
Index(n, e) == N("index", n, FALSE, 0, <<e>>)
MemAssign(n, e) == N("mem_assign", n, TRUE, 0, <<e>>)
IndexAssign(n, i, e) == N("index_assign", n, FALSE, 0, <<i, e>>)
Func(n, args, vars, stmts) ==
    N("func", n, FALSE, 0,
      <<N("arg_list", "", FALSE, 0, args), N("var_list", "", FALSE, 0, vars)>>
      \o stmts)
Start(vars, funcs) ==
    N("start", "", FALSE, 0,
      <<N("var_list", "", FALSE, 0, vars), N("func_list", "", FALSE, 0, funcs)>>)

\* the node at `path` (a sequence of child indices) below `t`
RECURSIVE NodeAt(_, _)
NodeAt(t, path) ==
    IF path = <<>> THEN t ELSE NodeAt(t.ch[Head(path)], Tail(path))

\* ------------------------------------------------------- value locations
\* The `loc` attribute: None (an immediate), Reg.A, a plain int (zero page),
\* StackOffset, ArgumentOffset (a StackOffset subclass), Pointer.
LocNone == [k |-> "None", n |-> 0]
LocA == [k |-> "A", n |-> 0]
ZeroPage(n) == [k |-> "zp", n |-> n]
StackOffset(n) == [k |-> "stk", n |-> n]
ArgumentOffset(n) == [k |-> "arg", n |-> n]
Pointer(n) == [k |-> "ptr", n |-> n]

\* isinstance(loc, StackOffset): ArgumentOffset is a subclass
IsStackOffset(loc) == loc.k \in {"stk", "arg"}
\* isinstance(loc, int)
IsInt(loc) == loc.k \in {"zp", "stk", "arg", "ptr"}
\* type(loc)(n)
SameType(loc, n) == [k |-> loc.k, n |-> n]

Variable(name, loc, size, is_pointer, is_array) ==
    [name |-> name, loc |-> loc, size |-> size,
     is_pointer |-> is_pointer, is_array |-> is_array]

\* ------------------------------------------------------ generator record
\* CodeGenerator.__init__ together with Program.__init__ (code) and the
\* attributes later grafted on the nodes (loc, size, labels, by path).
\* `span` records, for every visited node, the range of instruction indices
\* emitted while it was visited (a history field, read by no operation).
\* `pushes` records every call of _push: what A tracked, the scope's offset
\* before and after, the tracked node's location afterwards and what the
\* call emitted (a history field, read by no operation).
NewGenerator(ast) ==
    [ast |-> ast,
     code |-> <<>>,
     err |-> "",
     hasA |-> FALSE, regA |-> <<>>,
     global_vars |-> <<>>,
     functions |-> EmptyMap,
     label_counter |-> 0,
     required |-> <<>>,
     scope_offsets |-> <<0>>,
     scope_vars |-> <<>>,
     loc |-> EmptyMap, size |-> EmptyMap, labels |-> EmptyMap,
     span |-> EmptyMap,
     pushes |-> <<>>]

Raise(g, e) == IF g.err # "" THEN g ELSE [g EXCEPT !.err = e]

LocOf(g, p) == IF Has(g.loc, p) THEN g.loc[p] ELSE [k |-> "unset", n |-> 0]
SizeOf(g, p) == IF Has(g.size, p) THEN g.size[p] ELSE 0

Last(s) == s[Len(s)]
\* the statements of a method one after the other: the value of the last
Do(steps) == steps[Len(steps)]
SetLast(s, v) == [s EXCEPT ![Len(s)] = v]
ButLast(s) == SubSeq(s, 1, Len(s) - 1)

_setloc(g, p, loc) ==
    IF g.err # "" THEN g
    ELSE IF loc.k = "A"
         THEN [g EXCEPT !.hasA = TRUE, !.regA = p, !.loc = Put(@, p, loc)]
         ELSE [g EXCEPT !.loc = Put(@, p, loc)]

_setsize(g, p, size) ==
    IF g.err # "" THEN g ELSE [g EXCEPT !.size = Put(@, p, size)]

\* the label id `L<n>`
LabelId(n) == "L" \o ToString(n)

\* _getlabel: the id of local label `@n` of node p, allocated on first use
LabelsOf(g, p) == IF Has(g.labels, p) THEN g.labels[p] ELSE EmptyMap
HasLabel(g, p, n) == Has(LabelsOf(g, p), n)
_getlabel_id(g, p, n) ==
    IF HasLabel(g, p, n) THEN LabelsOf(g, p)[n] ELSE LabelId(g.label_counter)
_getlabel(g, p, n) ==
    IF g.err # "" \/ HasLabel(g, p, n) THEN g
    ELSE [g EXCEPT !.labels = Put(@, p, Put(LabelsOf(g, p), n, LabelId(g.label_counter))),
                   !.label_counter = @ + 1]

_resetlabels(g, p) ==
    IF g.err # "" THEN g ELSE [g EXCEPT !.labels = Put(@, p, EmptyMap)]

\* _getvar: innermost scope first, then the globals
RECURSIVE FindScope(_, _, _)
FindScope(scopes, i, name) ==
    IF i = 0 THEN 0
    ELSE IF \E j \in 1..Len(scopes[i]) : scopes[i][j].name = name THEN i
    ELSE FindScope(scopes, i - 1, name)

\* scopes are kept as sequences of Variables in insertion order
InScope(scope, name) == \E j \in 1..Len(scope) : scope[j].name = name
ScopeGet(scope, name) ==
    scope[CHOOSE j \in 1..Len(scope) : scope[j].name = name]
\* dict assignment: replace the entry of that name or append
ScopePut(scope, var) ==
    IF InScope(scope, var.name)
    THEN [j \in 1..Len(scope) |-> IF scope[j].name = var.name THEN var ELSE scope[j]]
    ELSE Append(scope, var)

\* a scope stack with the globals innermost
AllScopes_GlobalsFirst(g) == g.scope_vars \o <<g.global_vars>>
AllScopes(g) == <<g.global_vars>> \o g.scope_vars
VarDefined(g, name) == FindScope(AllScopes(g), Len(AllScopes(g)), name) # 0
_getvar(g, name) ==
    ScopeGet(AllScopes(g)[FindScope(AllScopes(g), Len(AllScopes(g)), name)], name)
NoVar == Variable("", LocNone, 0, FALSE, FALSE)
\* the variable, or NoVar where _getvar raises
VarOf(g, name) == IF VarDefined(g, name) THEN _getvar(g, name) ELSE NoVar
UndefinedVariable(g, name) ==
    IF VarDefined(g, name) THEN g ELSE Raise(g, "UndefinedVariable")

\* _alloc: the next free zero-page byte after the reserved block
_alloc_offset(g) ==
    reserved + SumSeq([j \in 1..Len(g.global_vars) |-> g.global_vars[j].size])
_alloc(g, size) ==
    IF _alloc_offset(g) + size > 255 THEN Raise(g, "SizeError") ELSE g


\* ------------------------------------------------------------ _instr
\* The `arg` parameter of _instr: absent, a string `#n`, `$n`, `@n` or a
\* global label, or a tree node; the `label` parameter: absent, `@n` or a name.
NoArg == [k |-> "none", n |-> 0, s |-> "", p |-> <<>>]
AImm(n) == [k |-> "imm", n |-> n, s |-> "", p |-> <<>>]
AAddr(n) == [k |-> "addr", n |-> n, s |-> "", p |-> <<>>]
ALocal(n) == [k |-> "local", n |-> n, s |-> "", p |-> <<>>]
AGlobal(s) == [k |-> "global", n |-> 0, s |-> s, p |-> <<>>]
ANode(p) == [k |-> "node", n |-> 0, s |-> "", p |-> p]

\* an entry of prg.code: (op, mode, arg, label); op "" is None, num -1 with
\* sym "" is an absent arg, sym # "" a label placeholder, label "" is None
Instruction(op, mode, num, sym, label) ==
    [op |-> op, mode |-> mode, num |-> num, sym |-> sym, label |-> label]

\* GLOBAL_LABEL = ^\w{3,}$ on an identifier
GLOBAL_LABEL(s) == Len(s) >= 3

\* the addressing mode _instr picks ("unbound": no branch assigns it,
\* "IndirectX": AddrMode has no such member)
InstrMode(g, op, arg) ==
    IF op = "" THEN ""
    ELSE CASE arg.k = "none" -> "imp"
           [] arg.k = "imm" -> "imm"
           [] arg.k = "addr" -> IF arg.n <= 255 THEN "zp" ELSE "abs"
           [] arg.k = "local" -> IF op = "jmp" THEN "abs" ELSE "rel"
           [] arg.k = "global" -> IF GLOBAL_LABEL(arg.s) THEN "abs" ELSE "unbound"
           [] arg.k = "node" ->
                LET loc == LocOf(g, arg.p) IN
                CASE loc.k = "None" -> "imm"
                  [] loc.k = "arg" -> "iny"
                  [] loc.k = "stk" -> "iny"
                  [] loc.k = "ptr" -> "IndirectX"
                  [] OTHER -> "zp"

\* the numeric arg of the emitted tuple (-1: none, or a label placeholder)
InstrNum(g, op, arg) ==
    CASE arg.k \in {"imm", "addr"} -> arg.n
      [] arg.k = "node" /\ op # "" ->
           LET loc == LocOf(g, arg.p) IN
           CASE loc.k = "None" -> NodeAt(g.ast, arg.p).val
             [] loc.k = "arg" -> arg_base_ptr
             [] loc.k = "stk" -> base_ptr
             [] loc.k = "ptr" -> 0
             [] loc.k = "zp" -> loc.n
             [] OTHER -> -1
      [] OTHER -> -1

\* _getlabel for a placeholder or label `@n`; any other leaves the generator
Labelled(g, t, a) == IF a.k = "local" THEN _getlabel(g, t, a.n) ELSE g
\* the text of a placeholder or label in the tuple
LabelText(g, t, a) ==
    CASE a.k = "local" -> _getlabel_id(g, t, a.n)
      [] a.k = "global" -> a.s
      [] OTHER -> ""
\* `if op is not None` guards the arg's branches
ArgOf(op, arg) == IF op = "" /\ arg.k = "local" THEN NoArg ELSE arg

\* the first half of _instr, on the arg: the mode, the numeric arg and the
\* placeholder of the tuple, and the generator after the placeholder's _getlabel
InstrArg(g, t, op, arg) ==
    [g |-> Labelled(g, t, ArgOf(op, arg)),
     mode |-> InstrMode(g, op, arg),
     num |-> InstrNum(g, op, arg),
     sym |-> LabelText(g, t, ArgOf(op, arg)),
     \* a register is no address: the tuple is appended, the listing fails
     bad |-> op # "" /\ arg.k = "node" /\ LocOf(g, arg.p).k \in {"A", "unset"}]

\* the append of _instr: g2 is the generator after both _getlabel calls
InstrTuple(g, g2, op, a, lbl) ==
    CASE a.mode = "IndirectX" -> Raise(g, "AttributeError")
      [] a.mode = "unbound" -> Raise(g2, "UnboundLocalError")
      [] a.bad ->
           Raise([g2 EXCEPT !.code = Append(@, Instruction(op, a.mode, -1, "", lbl))],
                 "TypeError")
      [] OTHER ->
           [g2 EXCEPT !.code = Append(@, Instruction(op, a.mode, a.num, a.sym, lbl))]

\* the second half of _instr, on the label
InstrLabel(g, t, op, a, label) ==
    InstrTuple(g, Labelled(a.g, t, label), op, a, LabelText(a.g, t, label))

_instr(g, t, op, arg, label) ==
    IF g.err # "" THEN g
    ELSE InstrLabel(g, t, op, InstrArg(g, t, op, arg), label)

\* a line of a listing: the (op, arg, label) of one _instr call
Line(op, arg, label) == [op |-> op, arg |-> arg, label |-> label]

RECURSIVE _instrs(_, _, _)
\* _instr calls in a row
_instrs(g, t, lines) ==
    IF g.err # "" \/ lines = <<>> THEN g
    ELSE _instrs(_instr(g, t, Head(lines).op, Head(lines).arg, Head(lines).label),
                 t, Tail(lines))

_ldy_offset(g, t, v) ==
    IF IsStackOffset(LocOf(g, v))
    THEN _instr(g, t, "ldy", AImm(LocOf(g, v).n), NoArg)
    ELSE g

_ldx_offset(g, t, v) ==
    IF LocOf(g, v).k = "ptr"
    THEN _instr(g, t, "ldx", AImm(LocOf(g, v).n), NoArg)
    ELSE g

\* ------------------------------------------------- accumulator policy
\* bytes by which _push lowers the scope's offset counter
PushStep(size) == 1

\* the else branch of _push: the value in A goes to a new stack temporary
PushTemporary(g, t, v, stack_offset) ==
    _instr(_setloc([g EXCEPT !.scope_offsets =
                        SetLast(@, stack_offset - PushStep(SizeOf(g, v)))],
                   v, StackOffset(255 + stack_offset)),
           t, "pha", NoArg, NoArg)

\* the body of _push
PushValue(g, t) ==
    IF g.err # "" \/ ~g.hasA THEN g
    ELSE IF NodeAt(g.ast, g.regA).data = "ref" \/ NodeAt(g.ast, g.regA).data = "var"
    THEN _setloc(UndefinedVariable(g, NodeAt(g.ast, g.regA).name), g.regA,
                 VarOf(g, NodeAt(g.ast, g.regA).name).loc)
    ELSE PushTemporary(g, t, g.regA, Last(g.scope_offsets))

\* the history entry of one call of _push that took g to g1
PushEntry(g, g1) ==
    [tracked |-> g.hasA,
     v |-> IF g.hasA THEN g.regA ELSE <<>>,
     size |-> IF g.hasA THEN SizeOf(g, g.regA) ELSE 0,
     offset |-> Last(g.scope_offsets),
     after |-> Last(g1.scope_offsets),
     loc |-> IF g.hasA THEN LocOf(g1, g.regA) ELSE LocOf(g1, <<>>),
     emitted |-> SubSeq(g1.code, Len(g.code) + 1, Len(g1.code)),
     err |-> g1.err]

_push(g, t) ==
    IF g.err # "" THEN g
    ELSE [PushValue(g, t) EXCEPT !.pushes = Append(@, PushEntry(g, PushValue(g, t)))]

\* the branches of _pull on the location `loc` and size of node a
PullFrom(g, t, a, loc, size) ==
    CASE IsStackOffset(loc) ->
           IF size = 2
           THEN LET g1 == _setloc(g, a, SameType(loc, loc.n + 1))
                    g2 == _ldy_offset(g1, t, a)
                    g4 == _instrs(g2, t, <<Line("lda", ANode(a), NoArg),
                                           Line("tax", NoArg, NoArg)>>)
                    g5 == _setloc(g4, a, loc)
                    g6 == _ldy_offset(g5, t, a)
                IN  _instr(g6, t, "lda", ANode(a), NoArg)
           ELSE _instr(_ldy_offset(g, t, a), t, "lda", ANode(a), NoArg)
      [] loc.k = "ptr" ->
           IF size = 2
           THEN _instrs(_ldx_offset(g, t, a), t,
                        <<Line("lda", ANode(a), NoArg),
                          Line("pha", NoArg, NoArg),
                          Line("lda", AAddr(loc.n), NoArg),
                          Line("clc", NoArg, NoArg),
                          Line("adc", AImm(1), NoArg),
                          Line("sta", AAddr(loc.n), NoArg),
                          Line("lda", AAddr(loc.n + 1), NoArg),
                          Line("adc", AImm(0), NoArg),
                          Line("sta", AAddr(loc.n), NoArg),
                          Line("lda", ANode(a), NoArg),
                          Line("tax", NoArg, NoArg),
                          Line("pla", NoArg, NoArg)>>)
           ELSE _instr(_ldx_offset(g, t, a), t, "lda", ANode(a), NoArg)
      [] loc.k = "zp" ->
           IF size = 2
           THEN _instr(_setloc(_instr(g, t, "lda", ANode(a), NoArg), a, ZeroPage(loc.n + 1)),
                       t, "ldx", ANode(a), NoArg)
           ELSE _instr(g, t, "lda", ANode(a), NoArg)
      [] OTHER ->
           _instrs(g, t,
                   IF size = 2
                   THEN <<Line("lda", AImm(NodeAt(g.ast, a).val % 256), NoArg),
                          Line("ldx", AImm((NodeAt(g.ast, a).val \div 256) % 256), NoArg)>>
                   ELSE <<Line("lda", AImm(NodeAt(g.ast, a).val % 256), NoArg)>>)

_pull(g, t, a) ==
    IF g.err # "" \/ LocOf(g, a).k = "A" THEN g
    ELSE _setloc(PullFrom(g, t, a, LocOf(g, a), SizeOf(g, a)), a, LocA)

\* ------------------------------------------------------------- scopes
_push_scope(g) ==
    IF g.err # "" THEN g
    ELSE [g EXCEPT !.hasA = FALSE,
                   !.scope_offsets = Append(@, Last(@)),
                   !.scope_vars = Append(@, <<>>)]

\* `for _ in range(n): self._instr(t, op)`
Repeat(op, n) == [i \in 1..n |-> Line(op, NoArg, NoArg)]

\* a _pop_scope that steps X the wrong way
PopOp_Down == "dex"

\* the instruction _pop_scope repeats to drop the scope's temporaries
PopOp == "inx"

\* the end of _pop_scope: the scope's variables and offset are dropped
DropScope(g) ==
    IF g.err # "" THEN g
    ELSE [g EXCEPT !.scope_vars = ButLast(@),
                   !.scope_offsets = ButLast(@),
                   !.hasA = FALSE]

\* pop_count of _pop_scope
PopCount(g) ==
    Abs(g.scope_offsets[Len(g.scope_offsets)] - g.scope_offsets[Len(g.scope_offsets) - 1])

_pop_scope(g, t, restore_stack) ==
    IF g.err # "" THEN g
    ELSE IF restore_stack /\ PopCount(g) > 0
    THEN DropScope(_instrs(g, t, <<Line("tsx", NoArg, NoArg)>>
                                  \o Repeat(PopOp, PopCount(g))
                                  \o <<Line("txs", NoArg, NoArg)>>))
    ELSE DropScope(g)

\* ---------------------------------------------------------- lib.py
\* parse_instructions: (op, arg, label) per line
LibInstr(op, arg, label) == [op |-> op, arg |-> arg, label |-> label]

MUL ==
    [name |-> "MUL",
     code |-> <<
        LibInstr("lda", AImm(0), NoArg),
        LibInstr("sta", AAddr(0), NoArg),
        LibInstr("tya", NoArg, ALocal(0)),
        LibInstr("and", AImm(1), NoArg),
        LibInstr("beq", ALocal(1), NoArg),
        LibInstr("txa", NoArg, NoArg),
        LibInstr("clc", NoArg, NoArg),
        LibInstr("adc", AAddr(0), NoArg),
        LibInstr("sta", AAddr(0), NoArg),
        LibInstr("txa", NoArg, ALocal(1)),
        LibInstr("asl", NoArg, NoArg),
        LibInstr("tax", NoArg, NoArg),
        LibInstr("tya", NoArg, NoArg),
        LibInstr("lsr", NoArg, NoArg),
        LibInstr("tay", NoArg, NoArg),
        LibInstr("bne", ALocal(0), NoArg),
        LibInstr("lda", AAddr(0), NoArg),
        LibInstr("rts", NoArg, NoArg) >>]

\* DIV with one round less
DIV_SevenRounds ==
    [name |-> "DIV",
     code |-> <<
        LibInstr("lda", AImm(0), NoArg),
        LibInstr("ldx", AImm(7), NoArg),
        LibInstr("asl", AAddr(0), NoArg),
        LibInstr("rol", NoArg, ALocal(0)),
        LibInstr("cmp", AAddr(1), NoArg),
        LibInstr("bcc", ALocal(1), NoArg),
        LibInstr("sbc", AAddr(1), NoArg),
        LibInstr("rol", AAddr(0), ALocal(1)),
        LibInstr("dex", NoArg, NoArg),
        LibInstr("bne", ALocal(0), NoArg),
        LibInstr("lda", AAddr(0), NoArg),
        LibInstr("rts", NoArg, NoArg) >>]

DIV ==
    [name |-> "DIV",
     code |-> <<
        LibInstr("lda", AImm(0), NoArg),
        LibInstr("ldx", AImm(8), NoArg),
        LibInstr("asl", AAddr(0), NoArg),
        LibInstr("rol", NoArg, ALocal(0)),
        LibInstr("cmp", AAddr(1), NoArg),
        LibInstr("bcc", ALocal(1), NoArg),
        LibInstr("sbc", AAddr(1), NoArg),
        LibInstr("rol", AAddr(0), ALocal(1)),
        LibInstr("dex", NoArg, NoArg),
        LibInstr("bne", ALocal(0), NoArg),
        LibInstr("lda", AAddr(0), NoArg),
        LibInstr("rts", NoArg, NoArg) >>]

Subroutine(name) == IF name = "MUL" THEN MUL ELSE DIV

\* a _require that inserts at every call
_require_Again(g, sub) ==
    IF g.err # "" THEN g ELSE [g EXCEPT !.required = Append(@, sub.name)]

\* _require: dict.setdefault keeps the first insertion
_require(g, sub) ==
    IF g.err # "" \/ (\E i \in 1..Len(g.required) : g.required[i] = sub.name)
    THEN g
    ELSE [g EXCEPT !.required = Append(@, sub.name)]

\* ------------------------------------------------------------ visitors
RECURSIVE visit(_, _)

Child(t, i) == Append(t, i)
NChildren(g, t) == Len(NodeAt(g.ast, t).ch)

RECURSIVE visit_from(_, _, _)
\* Interpreter.visit_children, from child i on
visit_from(g, t, i) ==
    IF g.err # "" \/ i > NChildren(g, t) THEN g
    ELSE visit_from(visit(g, Child(t, i)), t, i + 1)

visit_children(g, t) == visit_from(g, t, 1)

SizeCheck(g, e) == IF SizeOf(g, e) # 1 THEN Raise(g, "SizeError") ELSE g

\* `if isinstance(e.loc, Pointer): self._pull(t, e)`
PullIfPointer(g, t, e) == IF LocOf(g, e).k = "ptr" THEN _pull(g, t, e) ELSE g
\* `if e.loc is Reg.A: self._push(t)`
PushIfA(g, t, e) == IF LocOf(g, e).k = "A" THEN _push(g, t) ELSE g

\* the operand evaluated first, once visited: size-checked, pulled when behind
\* a pointer, spilled when it landed in A
FirstOperand(g, t, e) == PushIfA(PullIfPointer(SizeCheck(g, e), t, e), t, e)

\* the operand evaluated second, once visited: size-checked, pulled into A
SecondOperand(g, t, e) == _pull(SizeCheck(g, e), t, e)

\* `self._setloc(t, Reg.A); self._setsize(t, 1)`
ByteInA(g, t) == _setsize(_setloc(g, t, LocA), t, 1)

ret(g, t) ==
    LET g1 == visit(g, Child(t, 1))
    IN  Do(<<g1, _instr(SecondOperand(g1, t, Child(t, 1)), t, "tay", NoArg, NoArg)>>)

sub(g, t) ==
    LET left == Child(t, 1)
        right == Child(t, 2)
        g1 == visit(g, right)
        g2 == visit(FirstOperand(g1, t, right), left)
        g4 == _instr(SecondOperand(g2, t, left), t, "sec", NoArg, NoArg)
        g6 == _instr(_ldy_offset(g4, t, right), t, "sbc", ANode(right), NoArg)
    IN  Do(<<g1, g2, ByteInA(g6, t)>>)

add(g, t) ==
    LET left == Child(t, 1)
        right == Child(t, 2)
        g1 == visit(g, left)
        g2 == visit(FirstOperand(g1, t, left), right)
        g4 == _instr(SecondOperand(g2, t, right), t, "clc", NoArg, NoArg)
        g6 == _instr(_ldy_offset(g4, t, left), t, "adc", ANode(left), NoArg)
    IN  Do(<<g1, g2, ByteInA(g6, t)>>)

neg(g, t) ==
    LET g1 == visit(g, Child(t, 1))
    IN  Do(<<g1, ByteInA(_instrs(SecondOperand(g1, t, Child(t, 1)), t,
                                 <<Line("clc", NoArg, NoArg),
                                   Line("eor", AImm(255), NoArg),
                                   Line("adc", AImm(1), NoArg)>>), t)>>)

\* the common end of mul and div: the value in A to $0, `other` to $1, the
\* subroutine registered and called
CallSubroutine(g, t, other, routine) ==
    LET g4 == _instr(g, t, "sta", AAddr(0), NoArg)
        g6 == _instr(_pull(g4, t, other), t, "sta", AAddr(1), NoArg)
        g7 == _instr(_require(g6, routine), t, "jsr", AGlobal(routine.name), NoArg)
    IN  ByteInA(g7, t)

mul(g, t) ==
    LET left == Child(t, 1)
        right == Child(t, 2)
        g1 == visit(g, left)
        g2 == visit(FirstOperand(g1, t, left), right)
    IN  Do(<<g1, g2, CallSubroutine(SecondOperand(g2, t, right), t, left, MUL)>>)

div(g, t) ==
    LET left == Child(t, 1)
        right == Child(t, 2)
        g1 == visit(g, right)
        g2 == visit(FirstOperand(g1, t, right), left)
    IN  Do(<<g1, g2, CallSubroutine(SecondOperand(g2, t, left), t, right, DIV)>>)

_cmp(g, t, left, right) ==
    LET g1 == visit(g, right)
        g2 == visit(FirstOperand(g1, t, right), left)
        g4 == _ldy_offset(SecondOperand(g2, t, left), t, right)
    IN  Do(<<g1, g2, _instr(g4, t, "cmp", ANode(right), NoArg)>>)

eq(g, t) ==
    ByteInA(_instrs(_cmp(g, t, Child(t, 1), Child(t, 2)), t,
                    <<Line("beq", ALocal(0), NoArg),
                      Line("lda", AImm(0), NoArg),
                      Line("beq", ALocal(1), NoArg),
                      Line("lda", AImm(1), ALocal(0)),
                      Line("", NoArg, ALocal(1))>>), t)

neq(g, t) ==
    ByteInA(_instrs(_cmp(g, t, Child(t, 1), Child(t, 2)), t,
                    <<Line("cmp", ANode(Child(t, 2)), NoArg),
                      Line("bne", ALocal(0), NoArg),
                      Line("lda", AImm(0), NoArg),
                      Line("bne", ALocal(1), NoArg),
                      Line("lda", AImm(1), ALocal(0)),
                      Line("", NoArg, ALocal(1))>>), t)

\* _gt without the test for equal operands
_gt_NoEqualTest(g, t, left, right) ==
    _setloc(_instrs(_cmp(g, t, left, right), t,
                    <<Line("bcc", ALocal(0), NoArg),
                      Line("lda", AImm(1), NoArg),
                      Line("bne", ALocal(1), NoArg),
                      Line("lda", AImm(0), ALocal(0)),
                      Line("", NoArg, ALocal(1))>>), t, LocA)

_gt(g, t, left, right) ==
    _setloc(_instrs(_cmp(g, t, left, right), t,
                    <<Line("bcc", ALocal(0), NoArg),
                      Line("beq", ALocal(0), NoArg),
                      Line("lda", AImm(1), NoArg),
                      Line("bne", ALocal(1), NoArg),
                      Line("lda", AImm(0), ALocal(0)),
                      Line("", NoArg, ALocal(1))>>), t, LocA)

_geq(g, t, left, right) ==
    _setloc(_instrs(_cmp(g, t, left, right), t,
                    <<Line("bcs", ALocal(0), NoArg),
                      Line("beq", ALocal(0), NoArg),
                      Line("lda", AImm(0), NoArg),
                      Line("beq", ALocal(1), NoArg),
                      Line("lda", AImm(1), ALocal(0)),
                      Line("", NoArg, ALocal(1))>>), t, LocA)

geq(g, t) == _setsize(_geq(g, t, Child(t, 1), Child(t, 2)), t, 1)
leq(g, t) == _setsize(_geq(g, t, Child(t, 2), Child(t, 1)), t, 1)
gt(g, t) == _setsize(_gt(g, t, Child(t, 1), Child(t, 2)), t, 1)
lt(g, t) == _setsize(_gt(g, t, Child(t, 2), Child(t, 1)), t, 1)

\* a branch's condition, evaluated in its own scope; the else branch has none
IfCondition(g, stmt, has_expr) ==
    IF has_expr THEN visit(_push_scope(g), Child(stmt, 1)) ELSE g

\* the test of a branch's condition: to the true label when it is non-zero
IfTest(g, t, has_expr, true_i, next_i) ==
    IF ~has_expr THEN g
    ELSE _instrs(_pop_scope(g, t, TRUE), t,
                 <<Line("cmp", AImm(0), NoArg),
                   Line("bne", ALocal(true_i), NoArg),
                   Line("jmp", ALocal(next_i), NoArg)>>)

\* a branch's block under its true label, in its own scope
IfBlock(g, t, block, true_i) ==
    visit(_push_scope(_instr(g, t, "", NoArg, ALocal(true_i))), block)

\* the end of a branch: every branch but the last jumps to the end label
IfLeave(g, t, is_last) ==
    _instrs(_pop_scope(g, t, TRUE), t,
            IF ~is_last THEN <<Line("jmp", ALocal(0), NoArg)>> ELSE <<>>)

RECURSIVE if_branches(_, _, _)
\* the loop of if_stmt over the branches, from branch i on
if_branches(g, t, i) ==
    IF g.err # "" \/ i > NChildren(g, t) THEN g
    ELSE
    LET stmt == Child(t, i)
        is_last == i = NChildren(g, t)
        branch_i == 2 * i - 1
        true_i == 2 * i
        has_expr == NodeAt(g.ast, stmt).data # "else_branch"
        g1 == IfCondition(_instr(g, t, "", NoArg, ALocal(branch_i)), stmt, has_expr)
        g2 == IfTest(g1, t, has_expr, true_i, IF is_last THEN 0 ELSE true_i + 1)
        g3 == IfBlock(g2, t, IF has_expr THEN Child(stmt, 2) ELSE Child(stmt, 1), true_i)
    IN  Do(<<g1, g3, if_branches(IfLeave(g3, t, is_last), t, i + 1)>>)

\* end_label is `@0`, taken from the counter before the loop; the label ids
\* are allocated in order of first use
if_stmt(g, t) == _instr(if_branches(g, t, 1), t, "", NoArg, ALocal(0))

\* a loop that leaves when the condition is non-zero
while_stmt_LeavesOnTrue(g, t) ==
    LET g1 == _instr(g, t, "", NoArg, ALocal(1))
        g2 == visit(_push_scope(g1), Child(t, 1))
        g3 == _pop_scope(_pull(g2, t, Child(t, 1)), t, TRUE)
        g7 == _instrs(g3, t, <<Line("cmp", AImm(0), NoArg),
                               Line("beq", ALocal(2), NoArg),
                               Line("jmp", ALocal(0), NoArg),
                               Line("", NoArg, ALocal(2))>>)
        g8 == visit(_push_scope(g7), Child(t, 2))
    IN  Do(<<g2, g8, _instrs(_pop_scope(g8, t, TRUE), t,
                             <<Line("jmp", ALocal(1), NoArg),
                               Line("", NoArg, ALocal(0))>>)>>)

\* a loop closed by a relative branch back over its body
while_stmt_BranchesBack(g, t) ==
    LET g1 == _instr(g, t, "", NoArg, ALocal(1))
        g2 == visit(_push_scope(g1), Child(t, 1))
        g3 == _pop_scope(_pull(g2, t, Child(t, 1)), t, TRUE)
        g7 == _instrs(g3, t, <<Line("cmp", AImm(0), NoArg),
                               Line("bne", ALocal(2), NoArg),
                               Line("jmp", ALocal(0), NoArg),
                               Line("", NoArg, ALocal(2))>>)
        g8 == visit(_push_scope(g7), Child(t, 2))
    IN  Do(<<g2, g8, _instrs(_pop_scope(g8, t, TRUE), t,
                             <<Line("bne", ALocal(1), NoArg),
                               Line("", NoArg, ALocal(0))>>)>>)

while_stmt(g, t) ==
    LET g1 == _instr(g, t, "", NoArg, ALocal(1))
        g2 == visit(_push_scope(g1), Child(t, 1))
        g3 == _pop_scope(_pull(g2, t, Child(t, 1)), t, TRUE)
        g7 == _instrs(g3, t, <<Line("cmp", AImm(0), NoArg),
                               Line("bne", ALocal(2), NoArg),
                               Line("jmp", ALocal(0), NoArg),
                               Line("", NoArg, ALocal(2))>>)
        g8 == visit(_push_scope(g7), Child(t, 2))
    IN  Do(<<g2, g8, _instrs(_pop_scope(g8, t, TRUE), t,
                             <<Line("jmp", ALocal(1), NoArg),
                               Line("", NoArg, ALocal(0))>>)>>)

\* `if isinstance(loc, StackOffset): self._ldy_offset(t, expr)`
LdyIfStack(g, t, expr, loc) == IF IsStackOffset(loc) THEN _ldy_offset(g, t, expr) ELSE g

\* the store of assign: the value of expr, in A (and X for a word), to `loc`
Store(g, t, expr, loc, size) ==
    IF SizeOf(g, expr) = 2
    THEN IF size # 2 THEN Raise(g, "SizeError")
         ELSE IF IsStackOffset(loc)
         THEN LET a1 == _ldy_offset(_setloc(g, expr, loc), t, expr)
                  a3 == _instrs(a1, t, <<Line("sta", ANode(expr), NoArg),
                                         Line("txa", NoArg, NoArg)>>)
                  a4 == _ldy_offset(_setloc(a3, expr, SameType(loc, loc.n + 1)), t, expr)
              IN  _instr(a4, t, "sta", ANode(expr), NoArg)
         ELSE LET a2 == _instrs(_setloc(g, expr, loc), t,
                                <<Line("sta", ANode(expr), NoArg),
                                  Line("txa", NoArg, NoArg)>>)
                  a3 == _instr(_setloc(a2, expr, SameType(loc, loc.n + 1)),
                               t, "sta", ANode(expr), NoArg)
              IN  _setloc(a3, expr, loc)
    ELSE _instr(LdyIfStack(_setloc(g, expr, loc), t, expr, loc),
                t, "sta", ANode(expr), NoArg)

\* assign(t, size): `given` is whether the caller (var) passed a size
assign(g, t, given, size0) ==
    LET tn == NodeAt(g.ast, t)
        expr == Child(t, 1)
        use_loc == Has(g.loc, t) /\ IsInt(g.loc[t])
        g0 == IF use_loc
              THEN (IF ~given THEN Raise(g, "InternalError") ELSE g)
              ELSE UndefinedVariable(g, tn.name)
        size == IF use_loc THEN size0 ELSE VarOf(g, tn.name).size
        loc == IF use_loc THEN g.loc[t] ELSE VarOf(g, tn.name).loc
        g1 == visit(g0, expr)
    IN  Do(<<g1, Store(_pull(g1, t, expr), t, expr, loc, size)>>)

imm(g, t) ==
    LET val == NodeAt(g.ast, t).val IN
    IF val <= 255 THEN _setloc(_setsize(g, t, 1), t, LocNone)
    ELSE IF val <= 65535 THEN _setloc(_setsize(g, t, 2), t, LocNone)
    ELSE Raise(g, "SizeError")

_getref(g, t, var) ==
    _setloc(_instrs(g, t,
                    IF IsStackOffset(var.loc)
                    THEN <<Line("lda", AAddr(base_ptr), NoArg),
                           Line("clc", NoArg, NoArg),
                           Line("adc", AImm(var.loc.n), NoArg),
                           Line("pha", NoArg, NoArg),
                           Line("lda", AAddr(base_ptr + 1), NoArg),
                           Line("adc", AImm(0), NoArg),
                           Line("tax", NoArg, NoArg),
                           Line("pla", NoArg, NoArg)>>
                    ELSE <<Line("lda", AImm(var.loc.n % 256), NoArg),
                           Line("ldx", AImm(var.loc.n \div 256), NoArg)>>),
            t, LocA)

\* the location ref gives its node: A when the register holds that very
\* variable, the address of an array, else the variable's own location
RefLoc(g, t, name, var, in_a) ==
    IF in_a THEN _setloc(g, t, LocA)
    ELSE IF var.is_array THEN _getref(g, t, var)
    ELSE _setloc(g, t, var.loc)

ref(g, t) ==
    LET name == NodeAt(g.ast, t).name
        var == VarOf(g, name)
        reg_t == NodeAt(g.ast, g.regA)
        in_a == g.hasA /\ reg_t.data \in {"assign", "var", "ref"}
                   /\ ~reg_t.ptr /\ reg_t.name = name
    IN  _setsize(RefLoc(UndefinedVariable(g, name), t, name, var, in_a),
                 t, IF var.is_pointer THEN 2 ELSE 1)

getref(g, t) ==
    LET name == NodeAt(g.ast, t).name
    IN  _setsize(_getref(UndefinedVariable(g, name), t, VarOf(g, name)), t, 2)

\* ---- pointers
\* `if not var.is_pointer: raise NESQuikInvalidDereference`
InvalidDereference(g, var) ==
    IF g.err = "" /\ ~var.is_pointer THEN Raise(g, "InvalidDereference") ELSE g

\* the two anchors Tree(None, []) of _load_ptr, kept beside node t
AddrLo(t) == Append(t, -1)
AddrHi(t) == Append(t, -2)
Anchor(g, a, loc) == _setsize(_setloc(g, a, loc), a, 1)

\* `self._instr(t, Op.STA, tmp_ptr_lo)` and its like after a value is in A
StaTmp(g, t, addr) == _instr(g, t, "sta", AAddr(addr), NoArg)

\* _load_ptr for a pointer on the stack: its two bytes go to tmp_ptr
StackPtrToTmp(g, t, var) ==
    IF var.is_array
    THEN _instrs(_getref(g, t, var), t,
                 <<Line("sta", AAddr(tmp_ptr), NoArg),
                   Line("txa", NoArg, NoArg),
                   Line("sta", AAddr(tmp_ptr + 1), NoArg)>>)
    ELSE StaTmp(_pull(StaTmp(_pull(Anchor(Anchor(g, AddrLo(t), var.loc), AddrHi(t),
                                          SameType(var.loc, var.loc.n + 1)),
                                   t, AddrLo(t)),
                             t, tmp_ptr),
                      t, AddrHi(t)),
                t, tmp_ptr + 1)

_load_ptr(g, t, var) ==
    IF IsStackOffset(var.loc)
    THEN _setloc(StackPtrToTmp(g, t, var), t, Pointer(tmp_ptr))
    ELSE _setloc(g, t, Pointer(var.loc.n))

_load_ptr_to_tmp(g, t, var) ==
    IF IsStackOffset(var.loc) THEN _load_ptr(g, t, var)
    ELSE _setloc(_instrs(g, t,
                         <<Line("lda", IF var.is_array THEN AImm(var.loc.n)
                                       ELSE AAddr(var.loc.n), NoArg),
                           Line("sta", AAddr(tmp_ptr), NoArg),
                           Line("lda", IF var.is_array THEN AImm(0)
                                       ELSE AAddr(var.loc.n + 1), NoArg),
                           Line("sta", AAddr(tmp_ptr + 1), NoArg)>>),
                 t, Pointer(tmp_ptr))

\* the index in A is added to the pointer at t.loc
AddIndex(g, t) ==
    _instrs(g, t,
            <<Line("clc", NoArg, NoArg),
              Line("adc", AAddr(LocOf(g, t).n), NoArg),
              Line("sta", AAddr(LocOf(g, t).n), NoArg),
              Line("lda", AAddr(LocOf(g, t).n + 1), NoArg),
              Line("adc", AImm(0), NoArg),
              Line("sta", AAddr(LocOf(g, t).n + 1), NoArg)>>)

\* the variable a pointer rule names, checked
PointerNamed(g, t) ==
    InvalidDereference(UndefinedVariable(g, NodeAt(g.ast, t).name),
                       VarOf(g, NodeAt(g.ast, t).name))

mem_assign(g, t) ==
    LET g1 == visit(PointerNamed(g, t), Child(t, 1))
    IN  Do(<<g1, _instr(_pull(_ldx_offset(_load_ptr(PushIfA(PullIfPointer(g1, t, Child(t, 1)),
                                                            t, Child(t, 1)),
                                                    t, VarOf(g, NodeAt(g.ast, t).name)),
                                          t, t),
                              t, Child(t, 1)),
                        t, "sta", ANode(t), NoArg)>>)

deref(g, t) ==
    _setsize(_load_ptr(PointerNamed(g, t), t, VarOf(g, NodeAt(g.ast, t).name)), t, 1)

index(g, t) ==
    LET g1 == visit(PointerNamed(g, t), Child(t, 1))
    IN  Do(<<g1, _setsize(AddIndex(_pull(_load_ptr_to_tmp(FirstOperand(g1, t, Child(t, 1)), t,
                                                          VarOf(g, NodeAt(g.ast, t).name)),
                                         t, Child(t, 1)),
                                   t),
                          t, 1)>>)

index_assign(g, t) ==
    LET g1 == visit(PointerNamed(g, t), Child(t, 1))
        g2 == visit(FirstOperand(g1, t, Child(t, 1)), Child(t, 2))
    IN  Do(<<g1, g2,
             _instr(_ldx_offset(_pull(AddIndex(_pull(_load_ptr_to_tmp(
                                                         FirstOperand(g2, t, Child(t, 2)), t,
                                                         VarOf(g, NodeAt(g.ast, t).name)),
                                                     t, Child(t, 1)),
                                               t),
                                      t, Child(t, 2)),
                                t, t),
                    t, "sta", ANode(t), NoArg)>>)

\* `if func.args[i].size != arg_expr.size: raise NESQuikBadArgs`
ArgCheck(g, func, i, arg_expr) ==
    IF g.err = "" /\ func.args[i].size # SizeOf(g, arg_expr)
    THEN Raise(g, "BadArgs") ELSE g

\* the push of one argument: a word goes MSB first, a byte as it is
PushArgument(g, t, arg_expr) ==
    _instrs(g, t,
            IF g.err = "" /\ SizeOf(g, arg_expr) = 2
            THEN <<Line("tay", NoArg, NoArg),
                   Line("txa", NoArg, NoArg),
                   Line("pha", NoArg, NoArg),
                   Line("tya", NoArg, NoArg),
                   Line("pha", NoArg, NoArg)>>
            ELSE <<Line("pha", NoArg, NoArg)>>)

RECURSIVE call_args(_, _, _, _)
\* the loop of call over the argument expressions, from argument i on
call_args(g, t, func, i) ==
    IF i > NChildren(g, t) \/ g.err # "" THEN g
    ELSE
    LET arg_expr == Child(t, i)
        g1 == visit(g, arg_expr)
        g4 == PushArgument(_pull(ArgCheck(g1, func, i, arg_expr), t, arg_expr), t, arg_expr)
    IN  Do(<<g1, call_args(g4, t, func, i + 1)>>)

\* the instruction call repeats, after TSX, once per pushed argument byte
CallRestoreOp == "dex"

\* the stack clean-up after JSR: TSX, one step per pushed byte, TXS
RestoreStack(g, t, nargs) ==
    _instrs(g, t,
            IF g.err = "" /\ nargs > 0
            THEN <<Line("tsx", NoArg, NoArg)>>
                 \o Repeat(CallRestoreOp,
                           SumSeq([i \in 1..nargs |-> SizeOf(g, Child(t, i))]))
                 \o <<Line("txs", NoArg, NoArg)>>
            ELSE <<>>)

call(g, t) ==
    LET name == NodeAt(g.ast, t).name
        nargs == NChildren(g, t)
    IN  IF ~Has(g.functions, name) THEN Raise(g, "UndefinedFunction")
        ELSE IF nargs # Len(g.functions[name].args) THEN Raise(g, "BadArgs")
        ELSE
        LET g1 == call_args(g, t, g.functions[name], 1)
            g2 == _instr(g1, t, "jsr", AGlobal(name), NoArg)
            g4 == _instr(RestoreStack(g2, t, nargs), t, "tya", NoArg, NoArg)
        IN  Do(<<g1, _setsize(_setloc(g4, t, LocA), t, 1)>>)

\* the scope a declaration lands in: the globals or the innermost scope
DeclScope(g) == IF g.scope_vars = <<>> THEN g.global_vars ELSE Last(g.scope_vars)

\* registers the variable of a var or array node
Declare(g, var, is_local) ==
    IF g.err # "" THEN g
    ELSE IF is_local
    THEN [g EXCEPT !.scope_vars = SetLast(@, ScopePut(Last(@), var))]
    ELSE [g EXCEPT !.global_vars = ScopePut(@, var)]

\* a global gets its zero-page address when it is declared; a local already
\* has the StackOffset func gave it
Place(g, t, size, is_local) ==
    IF is_local THEN g ELSE _setloc(_alloc(g, size), t, ZeroPage(_alloc_offset(g)))

\* the initialisation of var, and the variable it registers
Initialise(g, t, tn, size, is_local) ==
    Declare(IF Len(tn.ch) > 0 THEN assign(g, t, TRUE, size) ELSE g,
            Variable(tn.name, LocOf(g, t), size, tn.ptr, FALSE), is_local)

var(g, t) ==
    LET tn == NodeAt(g.ast, t)
        size == IF tn.ptr THEN 2 ELSE 1
        is_local == g.scope_vars # <<>>
    IN  IF InScope(DeclScope(g), tn.name) THEN Raise(g, "RedefinedVariable")
        ELSE Initialise(Place(g, t, size, is_local), t, tn, size, is_local)

\* the variable array registers
DeclareArray(g, t, tn, is_local) ==
    Declare(g, Variable(tn.name, LocOf(g, t), tn.val, TRUE, TRUE), is_local)

array(g, t) ==
    LET tn == NodeAt(g.ast, t)
        size == tn.val
        is_local == g.scope_vars # <<>>
    IN  IF InScope(DeclScope(g), tn.name) THEN Raise(g, "RedefinedVariable")
        ELSE IF size > 255 THEN Raise(g, "SizeError")
        ELSE DeclareArray(Place(g, t, size, is_local), t, tn, is_local)

\* _get_child: the path of the first child of that rule
_get_child(g, t, type) ==
    Child(t, CHOOSE i \in 1..NChildren(g, t) :
                /\ NodeAt(g.ast, Child(t, i)).data = type
                /\ \A j \in 1..(i - 1) : NodeAt(g.ast, Child(t, j)).data # type)

ArgSize(a) == IF a.ptr THEN 2 ELSE 1

\* the amount func adds to arg_offset after placing an argument: `size`, the
\* variable the preceding loop over arg_list left at the last argument's size
ArgStride(arg_nodes, arg) == ArgSize(arg_nodes[Len(arg_nodes)])

RECURSIVE ArgLocs(_, _, _)
\* "assign locations on stack in reverse order": the offsets of arguments
\* i..1, the argument i being placed at `offset`
ArgLocs(arg_nodes, i, offset) ==
    IF i = 0 THEN <<>>
    ELSE Append(ArgLocs(arg_nodes, i - 1, offset + ArgStride(arg_nodes, arg_nodes[i])),
                offset)

FuncArgs(arg_nodes) ==
    LET locs == ArgLocs(arg_nodes, Len(arg_nodes), ArgOffset0) IN
    [i \in 1..Len(arg_nodes) |->
        Variable(arg_nodes[i].name, ArgumentOffset(locs[i]), ArgSize(arg_nodes[i]),
                 arg_nodes[i].ptr, FALSE)]

LocalSize(vn) == IF vn.data = "array" THEN vn.val ELSE IF vn.ptr THEN 2 ELSE 1

RECURSIVE LocalLocs(_, _, _, _)
\* the loop of func over var_list: every local gets its StackOffset; the
\* result carries the final stack_offset in scope_offsets[-1]
LocalLocs(g, vl, i, stack_offset) ==
    IF g.err # "" THEN g
    ELSE IF i > NChildren(g, vl)
    THEN [g EXCEPT !.scope_offsets = SetLast(@, stack_offset)]
    ELSE LET size == LocalSize(NodeAt(g.ast, Child(vl, i)))
             loc == StackOffset(255 + stack_offset - (size - 1))
         IN  LocalLocs(_setloc(g, Child(vl, i), loc), vl, i + 1, stack_offset - size)

\* the stack reservation of func for locals_size > 0
Reserve(g, t, locals_size) ==
    IF locals_size > 255 THEN Raise(g, "StackOverflow")
    ELSE _instrs(g, t,
                 (IF locals_size <= 5
                  THEN Repeat("dex", locals_size + 1)
                  ELSE <<Line("txa", NoArg, NoArg),
                         Line("sec", NoArg, NoArg),
                         Line("sbc", AImm(locals_size + 1), NoArg),
                         Line("tax", NoArg, NoArg)>>)
                 \o <<Line("txs", NoArg, NoArg)>>)

\* the function epilogue: SP and the base pointers restored, then RTS
Epilogue(g, t, has_args) ==
    _instrs(g, t,
            <<Line("ldx", AAddr(base_ptr), NoArg),
              Line("dex", NoArg, NoArg),
              Line("txs", NoArg, NoArg),
              Line("pla", NoArg, NoArg),
              Line("sta", AAddr(base_ptr), NoArg)>>
            \o (IF has_args THEN <<Line("sta", AAddr(arg_base_ptr), NoArg)>> ELSE <<>>)
            \o <<Line("rts", NoArg, NoArg)>>)

\* `self.functions[name] = Function(name, args)`
Register(g, name, args) ==
    IF g.err # "" THEN g
    ELSE [g EXCEPT !.functions = Put(@, name, [name |-> name, args |-> args])]

\* `self.scope_vars[-1].extend(args)` on the scope just pushed
ScopeArgs(g, args) ==
    IF g.err # "" THEN g ELSE [g EXCEPT !.scope_vars = SetLast(@, args)]

\* `self.scope_offsets[-1] = stack_offset`, after the reservation
SetOffsets(g, placed) ==
    IF g.err # "" THEN g ELSE [g EXCEPT !.scope_offsets = placed.scope_offsets]

\* the reservation for the locals `placed` has given their offsets
ReserveLocals(g, t, placed) ==
    LET locals_size == Abs(Last(placed.scope_offsets) - Last(g.scope_offsets))
        l2 == [placed EXCEPT !.scope_offsets = g.scope_offsets]
    IN  IF locals_size > 0 THEN Reserve(l2, t, locals_size) ELSE l2

\* the locals of func: offsets, reservation, scope_offsets[-1]
FuncLocals(g, t, var_list) ==
    IF g.err = "" /\ NChildren(g, var_list) > 0
    THEN SetOffsets(ReserveLocals(g, t, LocalLocs(g, var_list, 1, Last(g.scope_offsets))),
                    LocalLocs(g, var_list, 1, Last(g.scope_offsets)))
    ELSE g

func(g, t) ==
    LET tn == NodeAt(g.ast, t)
        args == FuncArgs(NodeAt(g.ast, _get_child(g, t, "arg_list")).ch)
        g2 == Register(_instr(g, t, "", NoArg, AGlobal(tn.name)), tn.name, args)
        g7 == _instrs(g2, t,
                      <<Line("tsx", NoArg, NoArg),
                        Line("lda", AAddr(base_ptr), NoArg),
                        Line("pha", NoArg, NoArg),
                        Line("stx", AAddr(base_ptr), NoArg)>>
                      \o (IF Len(args) > 0
                          THEN <<Line("stx", AAddr(arg_base_ptr), NoArg)>> ELSE <<>>))
        g10 == FuncLocals(ScopeArgs(_push_scope(g7), args), t, _get_child(g, t, "var_list"))
        g11 == visit_children(g10, t)
    IN  Do(<<g11, Epilogue(_pop_scope(g11, t, FALSE), t, Len(args) > 0)>>)

RECURSIVE required_from(_, _, _)
\* the loop of start over self.required, from entry i on
required_from(g, t, i) ==
    IF g.err # "" \/ i > Len(g.required) THEN g
    ELSE
    LET routine == Subroutine(g.required[i])
        g1 == _instr(_resetlabels(g, t), t, "", NoArg, AGlobal(routine.name))
    IN  required_from(_instrs(g1, t, routine.code), t, i + 1)

\* a start that does not ask for main
RequireMain_Never(g) == g

\* `if 'main' not in self.functions: raise NESQuikUndefinedFunction`
RequireMain(g) ==
    IF g.err = "" /\ ~Has(g.functions, "main") THEN Raise(g, "UndefinedFunction") ELSE g

start(g, t) ==
    LET g4 == _instrs(g, t, <<Line("lda", AImm(0), NoArg),
                              Line("sta", AAddr(base_ptr + 1), NoArg),
                              Line("lda", AImm(1), NoArg),
                              Line("sta", AAddr(arg_base_ptr + 1), NoArg)>>)
        g5 == visit(g4, _get_child(g, t, "var_list"))
        g7 == _instrs(g5, t, <<Line("jsr", AGlobal("main"), NoArg),
                               Line("brk", NoArg, NoArg)>>)
        g8 == visit_children(g7, _get_child(g, t, "func_list"))
    IN  Do(<<g5, g8, required_from(RequireMain(g8), t, 1)>>)

\* Interpreter.visit: dispatch on the rule name; rules without a method fall
\* to visit_children
Dispatch(g, t) ==
    LET d == NodeAt(g.ast, t).data IN
    CASE d = "ret" -> ret(g, t)
      [] d = "sub" -> sub(g, t)
      [] d = "add" -> add(g, t)
      [] d = "neg" -> neg(g, t)
      [] d = "mul" -> mul(g, t)
      [] d = "div" -> div(g, t)
      [] d = "eq" -> eq(g, t)
      [] d = "neq" -> neq(g, t)
      [] d = "geq" -> geq(g, t)
      [] d = "leq" -> leq(g, t)
      [] d = "gt" -> gt(g, t)
      [] d = "lt" -> lt(g, t)
      [] d = "if_stmt" -> if_stmt(g, t)
      [] d = "while_stmt" -> while_stmt(g, t)
      [] d = "start" -> start(g, t)
      [] d = "assign" -> assign(g, t, FALSE, 0)
      [] d = "imm" -> imm(g, t)
      [] d = "ref" -> ref(g, t)
      [] d = "getref" -> getref(g, t)
      [] d = "deref" -> deref(g, t)
      [] d = "index" -> index(g, t)
      [] d = "mem_assign" -> mem_assign(g, t)
      [] d = "index_assign" -> index_assign(g, t)
      [] d = "call" -> call(g, t)
      [] d = "var" -> var(g, t)
      [] d = "array" -> array(g, t)
      [] d = "func" -> func(g, t)
      [] OTHER -> visit_children(g, t)

\* the instructions emitted while node t was visited
Span(g, g1, t) == [g1 EXCEPT !.span = Put(@, t, <<Len(g.code) + 1, Len(g1.code)>>)]

visit(g, t) == IF g.err # "" THEN g ELSE Span(g, Dispatch(g, t), t)

\* CodeGenerator.exec on a fresh generator
Generate(ast) == visit(NewGenerator(ast), <<>>)

\* ------------------------------------------------------------ 6502
\* The machine the emitted list runs on.  `pc` is an index into the
\* instruction list; a label placeholder is looked up in the list (the
\* last entry carrying the label, as the resolver's dict keeps the last).
\* Memory is kept for the cells written so far; a cell never written reads
\* as `junk`.
Org == 49152

RECURSIVE BitAnd(_, _, _)
BitAnd(a, b, n) ==
    IF n = 0 THEN 0
    ELSE (IF a % 2 = 1 /\ b % 2 = 1 THEN 1 ELSE 0)
         + 2 * BitAnd(a \div 2, b \div 2, n - 1)

RECURSIVE BitXor(_, _, _)
BitXor(a, b, n) ==
    IF n = 0 THEN 0
    ELSE (IF a % 2 # b % 2 THEN 1 ELSE 0) + 2 * BitXor(a \div 2, b \div 2, n - 1)

Reset(junk, sp) ==
    [a |-> junk, x |-> junk, y |-> junk, sp |-> sp, c |-> 0, z |-> 0,
     pc |-> 1, mem |-> EmptyMap, junk |-> junk, st |-> "run"]

Rd(m, a) == IF Has(m.mem, a) THEN m.mem[a] ELSE m.junk
Wr(m, a, v) == [m EXCEPT !.mem = Put(@, a, v)]
Rd16(m, zp) == Rd(m, zp % 256) + (256 * Rd(m, (zp + 1) % 256))

HasLabelIn(code, sym) == \E i \in 1..Len(code) : code[i].label = sym
Target(code, sym) ==
    CHOOSE i \in 1..Len(code) :
        code[i].label = sym /\ \A j \in (i + 1)..Len(code) : code[j].label # sym

\* effective address of a memory operand
EA(m, ins) ==
    CASE ins.mode = "zp" -> ins.num
      [] ins.mode = "iny" -> (Rd16(m, ins.num) + m.y) % 65536
      [] ins.mode = "inx" -> Rd16(m, ins.num + m.x)
      [] OTHER -> ins.num

Operand(m, ins) == IF ins.mode = "imm" THEN ins.num ELSE Rd(m, EA(m, ins))

Flag(b) == IF b THEN 1 ELSE 0
SetZ(m, v) == [m EXCEPT !.z = Flag(v = 0)]
PushByte(m, v) == [Wr(m, 256 + m.sp, v) EXCEPT !.sp = (m.sp + 255) % 256]
PopSP(m) == (m.sp + 1) % 256
Goto(m, code, sym) ==
    IF HasLabelIn(code, sym) THEN [m EXCEPT !.pc = Target(code, sym)]
    ELSE [m EXCEPT !.st = "crash"]
BranchIf(m, code, ins, cond) ==
    IF cond THEN Goto(m, code, ins.sym) ELSE [m EXCEPT !.pc = @ + 1]

\* read-modify-write on A (Implied) or on a zero-page cell
Shift(m, ins, f(_, _)) ==
    LET v == IF ins.mode = "imp" THEN m.a ELSE Rd(m, EA(m, ins))
        r == f(v, m.c)
        m1 == IF ins.mode = "imp" THEN [m EXCEPT !.a = r[1]] ELSE Wr(m, EA(m, ins), r[1])
    IN  [SetZ(m1, r[1]) EXCEPT !.c = r[2], !.pc = @ + 1]

Asl(v, c) == <<(2 * v) % 256, v \div 128>>
Lsr(v, c) == <<v \div 2, v % 2>>
Rol(v, c) == <<(2 * v + c) % 256, v \div 128>>

Load(m, reg, v) ==
    LET m1 == CASE reg = "a" -> [m EXCEPT !.a = v]
                [] reg = "x" -> [m EXCEPT !.x = v]
                [] reg = "y" -> [m EXCEPT !.y = v]
    IN  [SetZ(m1, v) EXCEPT !.pc = @ + 1]

Adc(m, v) ==
    LET sum == m.a + v + m.c IN
    [Load(m, "a", sum % 256) EXCEPT !.c = Flag(sum >= 256)]

Sbc(m, v) ==
    LET d == m.a - v - (1 - m.c) IN
    [Load(m, "a", d % 256) EXCEPT !.c = Flag(d >= 0)]

\* one instruction
Exec(m, code) ==
    LET ins == code[m.pc]
        op == ins.op
        next == [m EXCEPT !.pc = @ + 1]
    IN
    CASE op = "" -> next
      [] op = "lda" -> Load(m, "a", Operand(m, ins))
      [] op = "ldx" -> Load(m, "x", Operand(m, ins))
      [] op = "ldy" -> Load(m, "y", Operand(m, ins))
      [] op = "sta" -> [Wr(m, EA(m, ins), m.a) EXCEPT !.pc = @ + 1]
      [] op = "stx" -> [Wr(m, EA(m, ins), m.x) EXCEPT !.pc = @ + 1]
      [] op = "sty" -> [Wr(m, EA(m, ins), m.y) EXCEPT !.pc = @ + 1]
      [] op = "tax" -> Load(m, "x", m.a)
      [] op = "tay" -> Load(m, "y", m.a)
      [] op = "txa" -> Load(m, "a", m.x)
      [] op = "tya" -> Load(m, "a", m.y)
      [] op = "tsx" -> Load(m, "x", m.sp)
      [] op = "txs" -> [next EXCEPT !.sp = m.x]
      [] op = "pha" -> [PushByte(m, m.a) EXCEPT !.pc = @ + 1]
      [] op = "pla" -> Load([m EXCEPT !.sp = PopSP(m)], "a", Rd(m, 256 + PopSP(m)))
      [] op = "inx" -> Load(m, "x", (m.x + 1) % 256)
      [] op = "iny" -> Load(m, "y", (m.y + 1) % 256)
      [] op = "dex" -> Load(m, "x", (m.x + 255) % 256)
      [] op = "inc" -> [SetZ(Wr(m, EA(m, ins), (Operand(m, ins) + 1) % 256),
                             (Operand(m, ins) + 1) % 256) EXCEPT !.pc = @ + 1]
      [] op = "clc" -> [next EXCEPT !.c = 0]
      [] op = "sec" -> [next EXCEPT !.c = 1]
      [] op = "adc" -> Adc(m, Operand(m, ins))
      [] op = "sbc" -> Sbc(m, Operand(m, ins))
      [] op = "cmp" -> [next EXCEPT !.c = Flag(m.a >= Operand(m, ins)),
                                    !.z = Flag(m.a = Operand(m, ins))]
      [] op = "and" -> Load(m, "a", BitAnd(m.a, Operand(m, ins), 8))
      [] op = "eor" -> Load(m, "a", BitXor(m.a, Operand(m, ins), 8))
      [] op = "asl" -> Shift(m, ins, Asl)
      [] op = "lsr" -> Shift(m, ins, Lsr)
      [] op = "rol" -> Shift(m, ins, Rol)
      [] op = "bcc" -> BranchIf(m, code, ins, m.c = 0)
      [] op = "bcs" -> BranchIf(m, code, ins, m.c = 1)
      [] op = "beq" -> BranchIf(m, code, ins, m.z = 1)
      [] op = "bne" -> BranchIf(m, code, ins, m.z = 0)
      [] op = "jmp" -> Goto(m, code, ins.sym)
      [] op = "jsr" ->
           Goto(PushByte(PushByte(m, (Org + m.pc) \div 256), (Org + m.pc) % 256),
                code, ins.sym)
      [] op = "rts" ->
           LET lo == Rd(m, 256 + PopSP(m))
               hi == Rd(m, 256 + ((m.sp + 2) % 256))
               to == ((lo + (256 * hi)) - Org) + 1
           IN  IF to \in 1..Len(code)
               THEN [m EXCEPT !.sp = (m.sp + 2) % 256, !.pc = to]
               ELSE [m EXCEPT !.sp = (m.sp + 2) % 256, !.st = "crash"]
      [] op = "brk" -> [m EXCEPT !.st = "brk"]
      [] OTHER -> [m EXCEPT !.st = "crash"]

\* ------------------------------------------------------------ opcodes
\* OPCODES: (op, mode) -> (opcode, size)
OPCODES ==
    <<"adc", "imm">> :> <<105, 2>> @@
    <<"adc", "iny">> :> <<113, 2>> @@
    <<"adc", "zp">> :> <<101, 2>> @@
    <<"and", "imm">> :> <<41, 2>> @@
    <<"and", "zp">> :> <<37, 2>> @@
    <<"asl", "imp">> :> <<10, 1>> @@
    <<"asl", "zp">> :> <<6, 2>> @@
    <<"bcc", "rel">> :> <<144, 2>> @@
    <<"bcs", "rel">> :> <<176, 2>> @@
    <<"beq", "rel">> :> <<240, 2>> @@
    <<"bne", "rel">> :> <<208, 2>> @@
    <<"brk", "imp">> :> <<0, 1>> @@
    <<"clc", "imp">> :> <<24, 1>> @@
    <<"cmp", "imm">> :> <<201, 2>> @@
    <<"cmp", "iny">> :> <<209, 2>> @@
    <<"cmp", "zp">> :> <<197, 2>> @@
    <<"dex", "imp">> :> <<202, 1>> @@
    <<"eor", "imm">> :> <<73, 2>> @@
    <<"inc", "zp">> :> <<230, 2>> @@
    <<"iny", "imp">> :> <<200, 1>> @@
    <<"inx", "imp">> :> <<232, 1>> @@
    <<"jmp", "abs">> :> <<76, 3>> @@
    <<"jsr", "abs">> :> <<32, 3>> @@
    <<"lda", "imm">> :> <<169, 2>> @@
    <<"lda", "iny">> :> <<177, 2>> @@
    <<"lda", "zp">> :> <<165, 2>> @@
    <<"ldx", "imm">> :> <<162, 2>> @@
    <<"ldx", "zp">> :> <<166, 2>> @@
    <<"ldy", "imm">> :> <<160, 2>> @@
    <<"ldy", "zp">> :> <<164, 2>> @@
    <<"lsr", "imp">> :> <<74, 1>> @@
    <<"lsr", "zp">> :> <<70, 2>> @@
    <<"pha", "imp">> :> <<72, 1>> @@
    <<"pla", "imp">> :> <<104, 1>> @@
    <<"rol", "imp">> :> <<42, 1>> @@
    <<"rol", "zp">> :> <<38, 2>> @@
    <<"rts", "imp">> :> <<96, 1>> @@
    <<"sbc", "imm">> :> <<233, 2>> @@
    <<"sbc", "iny">> :> <<241, 2>> @@
    <<"sbc", "zp">> :> <<229, 2>> @@
    <<"sec", "imp">> :> <<56, 1>> @@
    <<"sta", "zp">> :> <<133, 2>> @@
    <<"stx", "zp">> :> <<134, 2>> @@
    <<"sty", "zp">> :> <<132, 2>> @@
    <<"tax", "imp">> :> <<170, 1>> @@
    <<"tay", "imp">> :> <<168, 1>> @@
    <<"tsx", "imp">> :> <<186, 1>> @@
    <<"txa", "imp">> :> <<138, 1>> @@
    <<"txs", "imp">> :> <<154, 1>> @@
    <<"tya", "imp">> :> <<152, 1>>

\* ------------------------------------------------------ address injector
\* the state of a stage's loop: self.labels, prg.code, prg.obj, self.offset
\* and the exception that ended it ("" while it runs)
Outcome(labels, code, obj, offset, err) ==
    [labels |-> labels, code |-> code, obj |-> obj, offset |-> offset, err |-> err]

\* `if op is not None: _, size = OPCODES[(op, mode)] else: size = 0`;
\* -1 stands for the KeyError of the lookup
InstrSize(e) ==
    IF e.op = "" THEN 0
    ELSE IF <<e.op, e.mode>> \in DOMAIN OPCODES THEN OPCODES[<<e.op, e.mode>>][2]
    ELSE -1

\* the middle of the rounds a..b of a loop
Mid(a, b) == (a + b) \div 2

\* one round of the loop of _compute_offsets
ComputeOffset(st, e) ==
    IF InstrSize(e) < 0 THEN [st EXCEPT !.err = "KeyError"]
    ELSE [st EXCEPT !.labels = IF e.label # "" THEN Put(@, e.label, st.offset) ELSE @,
                    !.offset = @ + InstrSize(e)]

RECURSIVE _compute_offsets(_, _, _, _)
\* the rounds a..b of the loop of AddressInjector._compute_offsets
_compute_offsets(code, a, b, st) ==
    IF st.err # "" \/ a > b THEN st
    ELSE IF a = b THEN ComputeOffset(st, code[a])
    ELSE _compute_offsets(code, Mid(a, b) + 1, b,
                          _compute_offsets(code, a, Mid(a, b), st))

\* the displacement of a relative branch at `offset` to `label_offset`
RelativeOffset(label_offset, offset) ==
    IF label_offset - offset < 0
    THEN 256 + ((label_offset - offset) - 2)
    ELSE (label_offset - offset) - 2

\* an absolute target that leaves org out
InjectedOffset_NoOrg(org_, mode, label_offset, offset) ==
    IF mode = "rel" THEN RelativeOffset(label_offset, offset)
    ELSE label_offset

\* the arg that replaces a label
InjectedOffset(org_, mode, label_offset, offset) ==
    IF mode = "rel" THEN RelativeOffset(label_offset, offset)
    ELSE org_ + label_offset

\* one round of the loop of _inject_offsets: code[i] is rewritten in place
InjectOffset(org_, st, i) ==
    IF InstrSize(st.code[i]) < 0 THEN [st EXCEPT !.err = "KeyError"]
    ELSE IF st.code[i].sym = "" THEN [st EXCEPT !.offset = @ + InstrSize(st.code[i])]
    ELSE IF ~Has(st.labels, st.code[i].sym) THEN [st EXCEPT !.err = "UndefinedLabel"]
    ELSE [st EXCEPT !.code[i] = Instruction(
                        @.op, @.mode,
                        InjectedOffset(org_, @.mode, st.labels[@.sym], st.offset),
                        "", @.label),
                    !.offset = @ + InstrSize(st.code[i])]

RECURSIVE _inject_offsets(_, _, _, _)
\* the rounds a..b of the loop of AddressInjector._inject_offsets
_inject_offsets(org_, a, b, st) ==
    IF st.err # "" \/ a > b THEN st
    ELSE IF a = b THEN InjectOffset(org_, st, a)
    ELSE _inject_offsets(org_, Mid(a, b) + 1, b,
                         _inject_offsets(org_, a, Mid(a, b), st))

\* the second pass, on what the first pass found: self.offset = 0 again
InjectAfter(org_, pass1) ==
    IF pass1.err # "" THEN pass1
    ELSE _inject_offsets(org_, 1, Len(pass1.code), [pass1 EXCEPT !.offset = 0])

\* AddressInjector.exec(prg), self.labels being empty at construction
AddressInjector(org_, code) ==
    InjectAfter(org_, _compute_offsets(code, 1, Len(code),
                                       Outcome(EmptyMap, code, <<>>, 0, "")))

\* ------------------------------------------------------------ assembler
\* bytearray.append(v): an int in range(256), or ValueError; a str is no int
ByteAppend(out, v) ==
    IF out.err # "" THEN out
    ELSE IF v \in 0..255 THEN [out EXCEPT !.obj = Append(@, v)]
    ELSE [out EXCEPT !.err = "ValueError"]

\* `arg is not None`
HasArg(e) == e.num # -1 \/ e.sym # ""

\* the bytes of the arg of entry e, whose opcode is already appended
AppendArg(out, e, size) ==
    IF HasArg(e)
    THEN IF e.sym # "" /\ (size = 2 \/ (e.mode = "abs" /\ size = 3))
         THEN [out EXCEPT !.err = "TypeError"]
         ELSE IF e.mode = "abs" /\ size = 3
         THEN ByteAppend(ByteAppend(out, e.num % 256), e.num \div 256)
         ELSE IF size = 2 THEN ByteAppend(out, e.num)
         ELSE out
    ELSE IF size # 1 THEN [out EXCEPT !.err = "InternalError"]
    ELSE out

\* one round of the loop of Assembler.exec
Assemble(out, e) ==
    IF e.op = "" THEN out
    ELSE IF <<e.op, e.mode>> \notin DOMAIN OPCODES
    THEN [out EXCEPT !.err = "InternalError"]
    ELSE AppendArg(ByteAppend(out, OPCODES[<<e.op, e.mode>>][1]), e,
                   OPCODES[<<e.op, e.mode>>][2])

RECURSIVE Assembler(_, _, _, _)
\* the rounds a..b of the loop of Assembler.exec(prg)
Assembler(code, a, b, out) ==
    IF out.err # "" \/ a > b THEN out
    ELSE IF a = b THEN Assemble(out, code[a])
    ELSE Assembler(code, Mid(a, b) + 1, b, Assembler(code, a, Mid(a, b), out))

\* ------------------------------------------------------------ IR
\* a member of the enum Location of a module: ir_generator.py and tac.py each
\* define one, and `is` tells the members of the two apart
Location(module, name) == <<module, name>>
\* Value(loc, value) of either module; NoValue is None
Value(loc, value) == [loc |-> loc, value |-> value]
NoValue == Value(<<>>, 0)
TAC(op, dst, first, second) == [op |-> op, dst |-> dst, first |-> first, second |-> second]

BinOps == {"sub", "add", "div", "mul", "eq", "neq", "geq", "gt", "leq", "lt"}

\* _binop after visit_children: st.val is the right operand's value
BinOp(st, op, left) ==
    [code |-> Append(st.code,
                     TAC(op, Value(Location("ir_generator", "REGISTER"), st.regcounter),
                         left, st.val)),
     regcounter |-> st.regcounter + 1,
     val |-> Value(Location("ir_generator", "REGISTER"), st.regcounter)]

RECURSIVE IrVisit(_, _)
\* IRGenerator on the rules imm, the binary operators and ret; every other
\* rule of the inputs (start, var_list, func_list, func, arg_list) has no
\* method and is Interpreter.visit_children
IrVisit(st, n) ==
    CASE n.data = "imm" -> [st EXCEPT !.val = Value(Location("ir_generator", "IMMEDIATE"), n.val)]
      [] n.data \in BinOps ->
           LET l == IrVisit(st, n.ch[1])
               r == IrVisit(l, n.ch[2])
           IN  BinOp(r, n.data, l.val)
      [] n.data = "ret" ->
           LET e == IrVisit(st, n.ch[1])
           IN  [e EXCEPT !.code = Append(@, TAC("ret", NoValue, e.val, NoValue))]
      [] OTHER ->
           IF n.ch = <<>> THEN st
           ELSE IrVisit(IrVisit(st, [n EXCEPT !.ch = ButLast(@)]), Last(n.ch))

\* IRGenerator.exec: prg.ir
IRGenerator(ast) ==
    IrVisit([code |-> <<>>, regcounter |-> 0, val |-> NoValue], ast).code

\* the same code with the values of tac.py, the module target_6502 reads
\* Location from
TacValue(v) == IF v = NoValue THEN v ELSE Value(Location("tac", v.loc[2]), v.value)
TacCode(tacs) ==
    [i \in 1..Len(tacs) |->
        TAC(tacs[i].op, TacValue(tacs[i].dst), TacValue(tacs[i].first),
            TacValue(tacs[i].second))]

\* ------------------------------------------------------ target_6502
baseptr == 4
_MUL_SUBROUTINE ==
    <<Instruction("ldx", "imm", 8, "", "mul"),
      Instruction("asl", "imp", -1, "", "mul0"),
      Instruction("asl", "zp", 0, "", ""),
      Instruction("bcc", "rel", -1, "mul1", ""),
      Instruction("clc", "imp", -1, "", ""),
      Instruction("adc", "zp", 1, "", ""),
      Instruction("dex", "imp", -1, "", "mul1"),
      Instruction("bne", "rel", -1, "mul0", ""),
      Instruction("rts", "imp", -1, "", "")>>
_DIV_SUBROUTINE ==
    <<Instruction("lda", "imm", 0, "", "div"),
      Instruction("ldx", "imm", 8, "", ""),
      Instruction("asl", "zp", 0, "", ""),
      Instruction("rol", "imp", -1, "", "div0"),
      Instruction("cmp", "zp", 1, "", ""),
      Instruction("bcc", "rel", -1, "div1", ""),
      Instruction("sbc", "zp", 1, "", ""),
      Instruction("rol", "zp", 0, "", "div1"),
      Instruction("dex", "imp", -1, "", ""),
      Instruction("bne", "rel", -1, "div0", ""),
      Instruction("lda", "zp", 0, "", ""),
      Instruction("rts", "imp", -1, "", "")>>

\* AsmGenerator.__init__ and the preamble of exec; stack and requires are
\* dicts, kept as a map and as the names in insertion order
NewAsmGenerator ==
    [a |-> NoValue,
     code |-> <<Instruction("pha", "imp", -1, "", ""),
                Instruction("lda", "imm", 255, "", ""),
                Instruction("sta", "zp", baseptr, "", ""),
                Instruction("lda", "imm", 0, "", ""),
                Instruction("sta", "zp", baseptr + 1, "", "")>>,
     stack |-> EmptyMap,
     requires |-> <<>>,
     err |-> ""]

Emit(s, op, mode, num, sym) ==
    IF s.err # "" THEN s
    ELSE [s EXCEPT !.code = Append(@, Instruction(op, mode, num, sym, ""))]
Fail(s) == IF s.err # "" THEN s ELSE [s EXCEPT !.err = "InternalCompilerError"]

_push_a(s) ==
    IF s.err = "" /\ s.a # NoValue
    THEN [Emit(s, "pha", "imp", -1, "") EXCEPT
              !.stack = Put(@, s.a, 255 - Cardinality(DOMAIN s.stack))]
    ELSE s

_load_a(s, val) ==
    IF s.err # "" \/ (s.a # NoValue /\ s.a = val) THEN s
    ELSE IF val.loc = Location("tac", "IMMEDIATE") THEN Emit(s, "lda", "imm", val.value, "")
    ELSE IF Has(s.stack, val)
    THEN Emit(Emit(s, "ldy", "imm", s.stack[val], ""), "lda", "iny", baseptr, "")
    ELSE Fail(s)

\* `if dst.loc is Location.REGISTER: self.a = dst`, else the error
SetA(s, dst) ==
    IF s.err # "" THEN s
    ELSE IF dst.loc = Location("tac", "REGISTER") THEN [s EXCEPT !.a = dst]
    ELSE Fail(s)

_value_op(s, op, dst, value) ==
    SetA(IF value.loc = Location("tac", "IMMEDIATE") THEN Emit(s, op, "imm", value.value, "")
         ELSE IF value.loc = Location("tac", "REGISTER") /\ Has(s.stack, value)
         THEN Emit(Emit(s, "ldy", "imm", s.stack[value], ""), op, "iny", baseptr, "")
         ELSE Fail(s),
         dst)

__unordered_value_op(s, op, dst, first, second) ==
    IF s.a # NoValue /\ s.a = first THEN _value_op(s, op, dst, second)
    ELSE IF s.a # NoValue /\ s.a = second THEN _value_op(s, op, dst, first)
    ELSE _value_op(_load_a(_push_a(s), first), op, dst, second)

__ordered_value_op(s, op, dst, first, second) ==
    _value_op(_load_a(_push_a(s), first), op, dst, second)

\* `if name not in self.requires: self.requires[name] = ...`
Requires(s, name) ==
    IF \E i \in 1..Len(s.requires) : s.requires[i] = name THEN s
    ELSE [s EXCEPT !.requires = Append(@, name)]

\* the operands stored at $0 and $1 and the JSR of _ir_mul and _ir_div
CallRoutine(s, other, name, dst) ==
    SetA(Emit(Emit(_load_a(Emit(s, "sta", "zp", 0, ""), other),
                   "sta", "zp", 1, ""),
              "jsr", "abs", -1, name),
         dst)

_ir_mul(s, tac) ==
    IF s.a # NoValue /\ s.a = tac.first
    THEN CallRoutine(Requires(s, "mul"), tac.second, "mul", tac.dst)
    ELSE IF s.a # NoValue /\ s.a = tac.second
    THEN CallRoutine(Requires(s, "mul"), tac.first, "mul", tac.dst)
    ELSE CallRoutine(_load_a(_push_a(Requires(s, "mul")), tac.first),
                     tac.second, "mul", tac.dst)

_ir_div(s, tac) ==
    IF s.a = NoValue \/ s.a # tac.first
    THEN CallRoutine(_load_a(_push_a(Requires(s, "div")), tac.first),
                     tac.second, "div", tac.dst)
    ELSE CallRoutine(Requires(s, "div"), tac.second, "div", tac.dst)

\* one round of the loop over prg.ir: getattr(self, '_ir_' + name)(tac); an
\* AttributeError is printed and the loop goes on (no method for geq, gt,
\* leq, lt; _ir_eq and _ir_neq name Op.NOP, which Op lacks, after their CMP)
Translate(s, tac) ==
    IF s.err # "" THEN s
    ELSE CASE tac.op = "add" ->
                __unordered_value_op(Emit(s, "clc", "imp", -1, ""), "adc",
                                     tac.dst, tac.first, tac.second)
           [] tac.op = "sub" ->
                __ordered_value_op(Emit(s, "sec", "imp", -1, ""), "sbc",
                                   tac.dst, tac.first, tac.second)
           [] tac.op = "ret" -> Emit(_load_a(s, tac.first), "tay", "imp", -1, "")
           [] tac.op = "mul" -> _ir_mul(s, tac)
           [] tac.op = "div" -> _ir_div(s, tac)
           [] tac.op \in {"eq", "neq"} ->
                __unordered_value_op(s, "cmp", tac.dst, tac.first, tac.second)
           [] OTHER -> s

RECURSIVE TranslateAll(_, _, _)
TranslateAll(s, tacs, i) ==
    IF i > Len(tacs) THEN s ELSE TranslateAll(Translate(s, tacs[i]), tacs, i + 1)

RECURSIVE RequiredCode(_)
\* chain.from_iterable(self.requires.values())
RequiredCode(names) ==
    IF names = <<>> THEN <<>>
    ELSE (IF Head(names) = "mul" THEN _MUL_SUBROUTINE ELSE _DIV_SUBROUTINE)
         \o RequiredCode(Tail(names))

\* the BRK and the subroutines behind the translated code
Finish(s) ==
    IF s.err # "" THEN s
    ELSE [s EXCEPT !.code = Append(@, Instruction("brk", "imp", -1, "", ""))
                                \o RequiredCode(s.requires)]

\* AsmGenerator.exec: prg.code is assigned at the end
AsmGenerator(tacs) == Finish(TranslateAll(NewAsmGenerator, tacs, 1))

\* ------------------------------------------------------------ state
VARIABLES
    prg,    \* Program.ast: the tree handed to compile
    gen,    \* the CodeGenerator (with prg.code)
    phase,  \* "parsed", "generated", "resolved", "assembled", "failed"
    cpu,    \* the 6502
    hits,   \* history: how often each instruction has executed
    snap,   \* history: A, SP and base_ptr.lo when each instruction last started
    calls,  \* history: the pending JSRs (instruction index, SP and base_ptr.lo before)
    org,    \* Program.org
    obj,    \* Program.obj: the byte image
    raised, \* the exception a stage after the generator let out ("": none)
    listing, \* history: prg.code as the address injector received it
    stages, \* the stage classes the driver's loop has still to run
    ir,     \* Program.ir
    ran     \* history: the stage classes the driver's loop has run

\* the driver's loop over a stage list
driver == <<stages, ir, ran>>
vars == <<prg, gen, phase, cpu, hits, snap, calls, org, obj, raised, listing, driver>>

\* a stage run by hand, outside any stage list
NoDriver == stages = <<>> /\ ir = <<>> /\ ran = <<>>

JunkBytes == {0, 165}
ResetSP == {255}

InitWith(programs, junks) ==
    /\ prg \in programs
    /\ gen = NewGenerator(prg)
    /\ phase = "parsed"
    /\ \E j \in junks, s \in ResetSP : cpu = Reset(j, s)
    /\ hits = EmptyMap
    /\ snap = EmptyMap
    /\ calls = <<>>
    /\ org = Org
    /\ obj = <<>>
    /\ raised = ""
    /\ listing = <<>>
    /\ NoDriver

\* CodeGenerator.exec(prg)
CodeGeneratorExec ==
    /\ phase = "parsed"
    /\ gen' = Generate(prg)
    /\ phase' = IF gen'.err = "" THEN "generated" ELSE "failed"
    /\ UNCHANGED <<prg, cpu, hits, snap, calls, org, obj, raised, listing, driver>>

\* AddressInjector().exec(prg): prg.code is the generator's list
AddressInjectorExec ==
    /\ phase = "generated"
    /\ LET out == AddressInjector(org, gen.code)
       IN  /\ gen' = [gen EXCEPT !.code = out.code]
           /\ raised' = out.err
           /\ phase' = IF out.err = "" THEN "resolved" ELSE "failed"
    /\ listing' = gen.code
    /\ UNCHANGED <<prg, cpu, hits, snap, calls, org, obj, driver>>

\* Assembler().exec(prg)
AssemblerExec ==
    /\ phase = "resolved"
    /\ LET out == Assembler(gen.code, 1, Len(gen.code),
                            Outcome(EmptyMap, gen.code, obj, 0, ""))
       IN  /\ obj' = out.obj
           /\ raised' = out.err
           /\ phase' = IF out.err = "" THEN "assembled" ELSE "failed"
    /\ UNCHANGED <<prg, gen, cpu, hits, snap, calls, org, listing, driver>>

\* ---- the stage lists and the loop `for cls in stages: cls().exec(prg)`
\* STAGES of compiler.py
CompilerStages == <<"IRGenerator", "IROptimizer">>
\* the list of nq
NqStages == <<"Parser", "IRGenerator", "AsmGenerator", "ObjGenerator">>
\* STAGES of target_6502.py
TargetStages == <<"AsmGenerator", "AddressInjector", "ObjGenerator">>

\* the loop is at an instance of cls: an exception has left the loop
Turn(cls) == stages # <<>> /\ Head(stages) = cls /\ phase # "failed"
Advance == stages' = Tail(stages) /\ ran' = Append(ran, Head(stages))

\* Parser().exec(prg): prg.ast, the tree the model starts from
ParserExec ==
    /\ Turn("Parser")
    /\ Advance
    /\ UNCHANGED <<prg, gen, phase, cpu, hits, snap, calls, org, obj, raised, listing, ir>>

\* IRGenerator().exec(prg)
IRGeneratorExec ==
    /\ Turn("IRGenerator")
    /\ ir' = IRGenerator(prg)
    /\ Advance
    /\ UNCHANGED <<prg, gen, phase, cpu, hits, snap, calls, org, obj, raised, listing>>

\* IROptimizer().exec(prg): a pass over prg.ir
IROptimizerExec ==
    /\ Turn("IROptimizer")
    /\ Advance
    /\ UNCHANGED <<prg, gen, phase, cpu, hits, snap, calls, org, obj, raised, listing, ir>>

\* target_6502.AsmGenerator().exec(prg)
AsmGeneratorExec ==
    /\ Turn("AsmGenerator")
    /\ LET out == AsmGenerator(ir)
       IN  /\ gen' = IF out.err = "" THEN [gen EXCEPT !.code = out.code] ELSE gen
           /\ raised' = out.err
           /\ phase' = IF out.err = "" THEN "generated" ELSE "failed"
    /\ Advance
    /\ UNCHANGED <<prg, cpu, hits, snap, calls, org, obj, listing, ir>>

\* target_6502.AddressInjector().exec(prg): the two loops of compiler.py's,
\* on instructions that all have an op
InjectorExec ==
    /\ Turn("AddressInjector")
    /\ LET out == AddressInjector(org, gen.code)
       IN  /\ gen' = [gen EXCEPT !.code = out.code]
           /\ raised' = out.err
           /\ phase' = IF out.err = "" THEN "resolved" ELSE "failed"
    /\ listing' = gen.code
    /\ Advance
    /\ UNCHANGED <<prg, cpu, hits, snap, calls, org, obj, ir>>

\* target_6502.ObjGenerator().exec(prg): the loop of compiler.py's Assembler
ObjGeneratorExec ==
    /\ Turn("ObjGenerator")
    /\ LET out == Assembler(gen.code, 1, Len(gen.code),
                            Outcome(EmptyMap, gen.code, obj, 0, ""))
       IN  /\ obj' = out.obj
           /\ raised' = out.err
           /\ phase' = IF out.err = "" THEN "assembled" ELSE "failed"
    /\ Advance
    /\ UNCHANGED <<prg, gen, cpu, hits, snap, calls, org, listing, ir>>

HitsOf(h, i) == IF Has(h, i) THEN h[i] ELSE 0

\* one step of the machine on the generated list
CpuStep ==
    /\ phase = "generated"
    /\ cpu.st = "run"
    /\ cpu.pc \in 1..Len(gen.code)
    /\ HitsOf(hits, cpu.pc) < MaxHits
    /\ cpu' = Exec(cpu, gen.code)
    /\ hits' = Put(hits, cpu.pc, HitsOf(hits, cpu.pc) + 1)
    /\ snap' = Put(snap, cpu.pc, [a |-> cpu.a, x |-> cpu.x, y |-> cpu.y,
                                  sp |-> cpu.sp, bp |-> Rd(cpu, base_ptr)])
    /\ calls' = CASE gen.code[cpu.pc].op = "jsr" ->
                       Append(calls, [at |-> cpu.pc, sp |-> cpu.sp,
                                      bp |-> Rd(cpu, base_ptr)])
                  [] gen.code[cpu.pc].op = "rts" /\ calls # <<>> -> ButLast(calls)
                  [] OTHER -> calls
    /\ UNCHANGED <<prg, gen, phase, org, obj, raised, listing, driver>>

Next == CodeGeneratorExec \/ CpuStep

\* the three stages of compiler.py, each after the one before
NextStages == CodeGeneratorExec \/ AddressInjectorExec \/ AssemblerExec

\* the two stages that follow a generator
NextResolve == AddressInjectorExec \/ AssemblerExec

\* a driver's loop over its stage list
NextDriver ==
    \/ ParserExec
    \/ IRGeneratorExec
    \/ IROptimizerExec
    \/ AsmGeneratorExec
    \/ InjectorExec
    \/ ObjGeneratorExec

\* ------------------------------------------------------------ programs
\* byte operands: the low values, the sign boundary and the high values
Operands == (0..MaxOperand) \cup {127, 128} \cup ((255 - MaxOperand)..255)

Main(locals, stmts) == Func("main", <<>>, locals, stmts)

\* where a node's instructions are in the list
First(p) == gen.span[p][1]
LastOf(p) == gen.span[p][2]
Generated == phase = "generated"
AtBrk == Generated /\ cpu.st = "brk"
\* the machine is about to execute instruction i
At(i) == Generated /\ cpu.st = "run" /\ cpu.pc = i
FuncPaths == {<<2, i>> : i \in 1..Len(prg.ch[2].ch)}
\* the j-th statement of the i-th function
Stmt(i, j) == <<2, i, 2 + j>>

\* ---- return
\* func main(): return v      and      func fff(): return v
\*                                      func main(): return fff()
ReturnPrograms ==
    {Start(<<>>, <<Main(<<>>, <<Ret(Imm(v))>>)>>) : v \in Operands}
    \cup {Start(<<>>, <<Func("fff", <<>>, <<>>, <<Ret(Imm(v))>>),
                       Main(<<>>, <<Ret(Call("fff", <<>>))>>)>>) : v \in Operands}

SpecReturn == InitWith(ReturnPrograms, JunkBytes) /\ [][Next]_vars

\* the literal every program of ReturnPrograms returns
Returned == NodeAt(prg, Stmt(1, 1) \o <<1>>).val

\* C1: when a function's RTS is reached the value of the returned expression
\* is in A, and when the program reaches BRK A holds main's return value.
C1_ReturnValueInA ==
    /\ \A f \in FuncPaths : At(LastOf(f)) => cpu.a = Returned
    /\ AtBrk => cpu.a = Returned

\* what the list does instead: the value travels in Y, A is the popped base_ptr.lo
C1_ReturnValueInY ==
    /\ \A f \in FuncPaths :
          At(LastOf(f)) => cpu.y = Returned /\ cpu.a = Rd(cpu, base_ptr)
    /\ AtBrk => cpu.y = Returned

C1_Returned == AtBrk /\ Returned = 2 /\ Len(prg.ch[2].ch) = 2

\* ---- call with arguments
\* var xxx = 5
\* func fff(arg1, *arg2, ...): return 0
\* func main(): return fff(11, &xxx, ...)
\* one program per choice of plain / pointer for up to MaxArgs arguments
ArgName(i) == "arg" \o ToString(i)
Formal(is_ptr, i) == IF is_ptr THEN PtrArg(ArgName(i)) ELSE Arg(ArgName(i))
Actual(is_ptr, i) == IF is_ptr THEN GetRef("xxx") ELSE Imm(10 + i)
CallProgram(kinds) ==
    Start(<<VarInit("xxx", Imm(5))>>,
          <<Func("fff", [i \in 1..Len(kinds) |-> Formal(kinds[i], i)], <<>>,
                 <<Ret(Imm(0))>>),
            Main(<<>>, <<Ret(Call("fff", [i \in 1..Len(kinds) |-> Actual(kinds[i], i)]))>>)>>)
CallPrograms ==
    UNION {{CallProgram(kinds) : kinds \in [1..n -> BOOLEAN]} : n \in 1..MaxArgs}

SpecCall == InitWith(CallPrograms, {0}) /\ [][Next]_vars

\* the call node of main and the function it calls
TheCall == Stmt(2, 1) \o <<1>>
Callee == <<2, 1>>
Formals == gen.functions["fff"].args
\* bytes the call site pushes for the arguments after argument i
SizeAfter(i) == SumSeq([j \in 1..(Len(Formals) - i) |-> Formals[i + j].size])

\* C2: after the code of a call with arguments has executed (pushes, JSR,
\* TSX / DEX x n / TXS) SP equals its value before the first argument was
\* pushed.
C2_CallRestoresSP ==
    At(LastOf(TheCall) + 1) => cpu.sp = snap[First(TheCall)].sp

\* what the list does instead: SP ends 2n below (n pushed, n more by DEX)
C2_CallLowersSP ==
    At(LastOf(TheCall) + 1) =>
        cpu.sp = snap[First(TheCall)].sp - (2 * SizeAfter(0))

C2_CallDone == At(LastOf(TheCall) + 1) /\ Len(Formals) = 2

\* the stack byte the callee reads at argument offset n
ArgByte(n) == Rd(cpu, 256 + ((cpu.sp + n) % 256))

\* C3: each argument's ArgumentOffset is 3 plus the total size of the
\* arguments declared after it, the ranges [loc, loc+size) are pairwise
\* disjoint, and on entry of the callee they hold what the call site pushed
\* (in source order, the high byte of a pointer first).
C3_ArgumentOffsets ==
    Generated =>
        /\ \A i \in 1..Len(Formals) : Formals[i].loc.n = ArgOffset0 + SizeAfter(i)
        /\ \A i, j \in 1..Len(Formals) :
              i < j => Formals[j].loc.n + Formals[j].size <= Formals[i].loc.n
        /\ At(First(Callee)) =>
              \A i \in 1..Len(Formals) :
                 IF Formals[i].is_pointer
                 THEN /\ ArgByte(Formals[i].loc.n) = reserved
                      /\ ArgByte(Formals[i].loc.n + 1) = 0
                 ELSE ArgByte(Formals[i].loc.n) = 10 + i

C3_CalleeEntered == At(First(Callee)) /\ Len(Formals) = 3

\* ---- frames
\* var xxx = 1
\* func fff(arg1):
\*     var loc1 = 1 ...                      (m locals)
\*     xxx = (arg1 + 1) - (1 + 2)
\*     return arg1
\* func main():
\*     var loc1 = 1 ...                      (n locals, or a pointer and an array)
\*     xxx = fff(2 + 3) - (xxx + 2)
\*     if xxx == 0: xxx = (1 + 2) - (2 + 3)
\*     else: xxx = fff(1)
\*     return xxx
Locals(n) == [i \in 1..n |-> VarInit("loc" \o ToString(i), Imm(i))]
MixedLocals == <<Var("loc1"), PtrVar("ptr1"), Array("arr1", MaxLocals)>>
FrameProgram(callee_locals, main_locals) ==
    Start(<<VarInit("xxx", Imm(1))>>,
          <<Func("fff", <<Arg("arg1")>>, callee_locals,
                 <<Assign("xxx", Bin("sub", Bin("add", Ref("arg1"), Imm(1)),
                                            Bin("add", Imm(1), Imm(2)))),
                   Ret(Ref("arg1"))>>),
            Main(main_locals,
                 <<Assign("xxx", Bin("sub", Call("fff", <<Bin("add", Imm(2), Imm(3))>>),
                                            Bin("add", Ref("xxx"), Imm(2)))),
                   IfStmt(<<IfBranch(Bin("eq", Ref("xxx"), Imm(0)),
                                     <<Assign("xxx", Bin("sub", Bin("add", Imm(1), Imm(2)),
                                                                Bin("add", Imm(2), Imm(3))))>>),
                            ElseBranch(<<Assign("xxx", Call("fff", <<Imm(1)>>))>>)>>),
                   Ret(Ref("xxx"))>>)>>)
\* var xxx = 0
\* func fff(arg1, arg2, arg3): return arg3
\* func main():
\*     while xxx < k: xxx = fff(1, 2, xxx) + 1
\*     return xxx
CallLoop(k) ==
    Start(<<VarInit("xxx", Imm(0))>>,
          <<Func("fff", [i \in 1..MaxArgs |-> Arg(ArgName(i))], <<>>,
                 <<Ret(Ref(ArgName(MaxArgs)))>>),
            Main(<<>>,
                 <<While(Bin("lt", Ref("xxx"), Imm(k)),
                         <<Assign("xxx",
                                  Bin("add",
                                      Call("fff", [i \in 1..MaxArgs |->
                                                     IF i = MaxArgs THEN Ref("xxx") ELSE Imm(i)]),
                                      Imm(1)))>>),
                   Ret(Ref("xxx"))>>)>>)
FramePrograms ==
    {FrameProgram(Locals(m), Locals(n)) : m \in {0, 2}, n \in 0..MaxLocals}
    \cup {FrameProgram(MixedLocals, MixedLocals)}
    \cup {CallLoop(MaxIter)}

SpecFrame == InitWith(FramePrograms, JunkBytes) /\ [][Next]_vars

\* C4: when a function's RTS is about to execute, base_ptr.lo and SP have the
\* values they had on entry (right after the caller's JSR), whatever locals
\* and temporaries the body pushed, so the RTS returns behind that JSR.
C4_FramePreserved ==
    \A f \in FuncPaths :
        At(LastOf(f)) =>
            /\ calls # <<>>
            /\ Rd(cpu, base_ptr) = Last(calls).bp
            /\ cpu.sp = (Last(calls).sp + 254) % 256
            /\ Exec(cpu, gen.code).st = "run"
            /\ Exec(cpu, gen.code).pc = Last(calls).at + 1

\* the same for the programs that call no function in a loop, where SP never
\* goes round the stack page
C4_FramePreservedNoLoop ==
    NodeAt(prg, Stmt(2, 1)).data # "while_stmt" => C4_FramePreserved

\* fff returns into main, which has locals and has spilled a temporary
C4_NestedReturn ==
    /\ At(LastOf(Callee)) /\ Len(calls) = 2
    /\ Len(NodeAt(prg, <<2, 2, 2>>).ch) = MaxLocals
    /\ cpu.sp < snap[First(<<2, 2>>)].sp - MaxLocals - 2

\* ---- if / elif / else
\* var aaa = a
\* var res = 0
\* func main():
\*     if c1: res = 1
\*     elif c2: res = 2
\*     else: res = 3                          (with and without else)
\*     return res
\* every condition a comparison on aaa, a literal or aaa itself
Comparisons == {Bin("eq", Ref("aaa"), Imm(1)), Bin("gt", Ref("aaa"), Imm(0)),
                Bin("leq", Ref("aaa"), Imm(1))}
Conditions == Comparisons \cup {Imm(0), Imm(1), Ref("aaa")}
Branch(c, i) == IF i = 1 THEN IfBranch(c, <<Assign("res", Imm(i))>>)
                ELSE ElifBranch(c, <<Assign("res", Imm(i))>>)
IfProgram(a, conds, with_else) ==
    Start(<<VarInit("aaa", Imm(a)), VarInit("res", Imm(0))>>,
          <<Main(<<>>,
                 <<IfStmt([i \in 1..Len(conds) |-> Branch(conds[i], i)]
                          \o (IF with_else
                              THEN <<ElseBranch(<<Assign("res", Imm(Len(conds) + 1))>>)>>
                              ELSE <<>>)),
                   Ret(Ref("res"))>>)>>)
IfPrograms ==
    UNION {{IfProgram(a, conds, e) :
               a \in 0..MaxOperand, conds \in [1..n -> Conditions], e \in BOOLEAN} :
           n \in 1..MaxBranches}

SpecIf == InitWith(IfPrograms, {0}) /\ [][Next]_vars

\* the value the source gives an expression over the global aaa
GlobalInit(name) ==
    LET gl == prg.ch[1].ch
        i == CHOOSE i \in 1..Len(gl) : gl[i].name = name
    IN  gl[i].ch[1].val
Truth(b) == IF b THEN 1 ELSE 0
Operand1(e) == IF e.data = "imm" THEN e.val ELSE GlobalInit(e.name)
ValueOf(e) ==
    CASE e.data \in {"imm", "ref"} -> Operand1(e)
      [] e.data = "eq" -> Truth(Operand1(e.ch[1]) = Operand1(e.ch[2]))
      [] e.data = "neq" -> Truth(Operand1(e.ch[1]) # Operand1(e.ch[2]))
      [] e.data = "gt" -> Truth(Operand1(e.ch[1]) > Operand1(e.ch[2]))
      [] e.data = "geq" -> Truth(Operand1(e.ch[1]) >= Operand1(e.ch[2]))
      [] e.data = "lt" -> Truth(Operand1(e.ch[1]) < Operand1(e.ch[2]))
      [] e.data = "leq" -> Truth(Operand1(e.ch[1]) <= Operand1(e.ch[2]))

TheIf == Stmt(1, 1)
Branches == NodeAt(prg, TheIf).ch
IsElse(i) == Branches[i].data = "else_branch"
CondOf(i) == TheIf \o <<i, 1>>
BodyOf(i) == TheIf \o (IF IsElse(i) THEN <<i, 1>> ELSE <<i, 2>>)
\* the CMP #0 if_stmt emits behind the code of branch i's condition
CmpOf(i) == LastOf(CondOf(i)) + 1
\* the branch the source semantics selects: the first whose condition is
\* non-zero, else the else branch, else none (0)
Holds(i) == ~IsElse(i) /\ ValueOf(Branches[i].ch[1]) # 0
Selected ==
    IF \E i \in 1..Len(Branches) : Holds(i) \/ IsElse(i)
    THEN CHOOSE i \in 1..Len(Branches) :
            /\ Holds(i) \/ IsElse(i)
            /\ \A j \in 1..(i - 1) : ~Holds(j)
    ELSE 0

\* C5: on every execution of an if/elif/else chain exactly the body of the
\* first conditional branch whose condition is non-zero runs (the else body
\* if there is none, no body without an else), no condition after the
\* successful one is evaluated, and control reaches the end label.
C5_IfRunsFirstTrueBranch ==
    AtBrk =>
        /\ \A i \in 1..Len(Branches) :
              HitsOf(hits, First(BodyOf(i))) = Truth(i = Selected)
        /\ \A i \in 1..Len(Branches) :
              (~IsElse(i) /\ Selected # 0 /\ i > Selected) => HitsOf(hits, CmpOf(i)) = 0
        /\ HitsOf(hits, LastOf(TheIf)) = 1

\* the same for the chains whose conditions are all comparisons, which leave
\* their value in A
C5_IfOnComparisons ==
    (\A i \in 1..Len(Branches) : IsElse(i) \/ Branches[i].ch[1] \in Comparisons)
        => C5_IfRunsFirstTrueBranch

C5_ElifTaken ==
    /\ AtBrk /\ Len(Branches) = 3 /\ Selected = 2
    /\ HitsOf(hits, First(BodyOf(2))) = 1 /\ gen.code[CmpOf(2)].op = "cmp"

\* ---- while
\* var ccc = n
\* func main():
\*     var iii = 0
\*     while c:                               (c true n times)
\*         iii = iii + 1
\*         ccc = ccc - 1
\*     return iii
LoopConditions(n) ==
    {Bin("lt", Ref("iii"), Imm(n)), Bin("gt", Imm(n), Ref("iii")),
     Bin("geq", Ref("ccc"), Imm(1)), Bin("sub", Imm(n), Ref("iii")), Ref("ccc")}
WhileProgram(cond, n) ==
    Start(<<VarInit("ccc", Imm(n))>>,
          <<Main(<<VarInit("iii", Imm(0))>>,
                 <<While(cond, <<Assign("iii", Bin("add", Ref("iii"), Imm(1))),
                                 Assign("ccc", Bin("sub", Ref("ccc"), Imm(1)))>>),
                   Ret(Ref("iii"))>>)>>)
WhilePrograms ==
    UNION {{WhileProgram(c, n) : c \in LoopConditions(n)} : n \in 0..MaxIter}
    \cup {WhileProgram(Imm(0), MaxIter)}

SpecWhile == InitWith(WhilePrograms, {0}) /\ [][Next]_vars

TheWhile == Stmt(1, 1)
\* iterations the source semantics gives the program
Iterations == IF NodeAt(prg, TheWhile \o <<1>>).data = "imm" THEN 0 ELSE GlobalInit("ccc")
LoopAt == First(TheWhile)
EndAt == LastOf(TheWhile)
BackAt == EndAt - 1
BodyAt == First(TheWhile \o <<2>>) - 1
LeaveAt == BodyAt - 1
BneAt == BodyAt - 2
CmpAt == BodyAt - 3
StepTo == Exec(cpu, gen.code).pc

\* C6: the condition is evaluated before every iteration, the body runs once
\* per non-zero evaluation and jumps back to the loop label, and the loop is
\* left through the end label the first time the condition evaluates to 0.
C6_WhileLoops ==
    Generated =>
        /\ At(BneAt) => StepTo = (IF snap[CmpAt].a # 0 THEN BodyAt ELSE LeaveAt)
        /\ At(LeaveAt) => StepTo = EndAt
        /\ At(BackAt) => StepTo = LoopAt
        /\ HitsOf(hits, BodyAt) <= HitsOf(hits, CmpAt)
        /\ HitsOf(hits, CmpAt) <= HitsOf(hits, LoopAt)
        /\ HitsOf(hits, BodyAt) <= Iterations
        /\ HitsOf(hits, EndAt) = 1 => HitsOf(hits, BodyAt) = Iterations
        /\ AtBrk => /\ HitsOf(hits, EndAt) = 1
                    /\ HitsOf(hits, BackAt) = Iterations
                    /\ HitsOf(hits, LoopAt) = Iterations + 1
                    /\ HitsOf(hits, CmpAt) = Iterations + 1
                    /\ cpu.y = Iterations

C6_LoopedAndLeft ==
    /\ AtBrk /\ Iterations = MaxIter /\ HitsOf(hits, BodyAt) = MaxIter
    /\ gen.code[CmpAt].op = "cmp" /\ gen.code[BneAt].op = "bne"
    /\ gen.code[BackAt].op = "jmp" /\ gen.code[EndAt].op = ""

\* ---- comparisons
\* var aaa = a
\* var bbb = b
\* func main():
\*     var ccc = a
\*     var ddd = b
\*     return x OP y        x one of a, aaa, ccc, aaa + 0; y likewise for b
OrderOps == {"eq", "gt", "geq", "lt", "leq"}
OperandForms == {"imm", "global", "local", "sum"}
OperandNode(form, v, glob, loc) ==
    CASE form = "imm" -> Imm(v)
      [] form = "global" -> Ref(glob)
      [] form = "local" -> Ref(loc)
      [] form = "sum" -> Bin("add", Ref(glob), Imm(0))
CompareProgram(op, a, b, l, r) ==
    Start(<<VarInit("aaa", Imm(a)), VarInit("bbb", Imm(b))>>,
          <<Main(<<VarInit("ccc", Imm(a)), VarInit("ddd", Imm(b))>>,
                 <<Ret(Bin(op, l, r))>>)>>)
BinaryPrograms(ops, lefts, rights) ==
    {CompareProgram(op, a, b, OperandNode(l, a, "aaa", "ccc"),
                    OperandNode(r, b, "bbb", "ddd")) :
        op \in ops, a \in lefts, b \in rights,
        l \in OperandForms, r \in OperandForms}
ComparisonsOf(ops) == BinaryPrograms(ops, Operands, Operands)

SpecCompare == InitWith(ComparisonsOf(OrderOps), {0}) /\ [][Next]_vars

TheCompare == Stmt(1, 1) \o <<1>>
CompareOp == NodeAt(prg, TheCompare).data
LeftValue == GlobalInit("aaa")
RightValue == GlobalInit("bbb")
Relation(op, a, b) ==
    CASE op = "eq" -> a = b
      [] op = "neq" -> a # b
      [] op = "gt" -> a > b
      [] op = "geq" -> a >= b
      [] op = "lt" -> a < b
      [] op = "leq" -> a <= b
\* the program with the comparison replaced by `op` on the swapped operands
Swapped(op) ==
    LET e == NodeAt(prg, TheCompare)
    IN  CompareProgram(op, LeftValue, RightValue, e.ch[2], e.ch[1])
Mirror(op) == IF op = "lt" THEN "gt" ELSE "geq"
JustGenerated == Generated /\ hits = EmptyMap

\* C7: the code of eq, gt, geq, lt and leq leaves A = 1 when the unsigned
\* relation holds between the operands and A = 0 otherwise, and lt(a,b),
\* leq(a,b) are the code of gt(b,a), geq(b,a).
C7_OrderRelations ==
    /\ At(LastOf(TheCompare) + 1) =>
          cpu.a = Truth(Relation(CompareOp, LeftValue, RightValue))
    /\ AtBrk => cpu.y = Truth(Relation(CompareOp, LeftValue, RightValue))
    /\ (JustGenerated /\ CompareOp \in {"lt", "leq"}) =>
          gen.code = Generate(Swapped(Mirror(CompareOp))).code

C7_Compared ==
    /\ At(LastOf(TheCompare) + 1) /\ CompareOp = "leq"
    /\ LeftValue = 128 /\ RightValue = 128 /\ cpu.a = 1
    /\ NodeAt(prg, TheCompare \o <<1>>).data = "add"
    /\ HitsOf(hits, First(TheCompare)) = 1

\* ---- not equal: the comparison programs with x != y
SpecNotEqual == InitWith(ComparisonsOf({"neq"}), {0}) /\ [][Next]_vars

\* C8: the code of neq leaves A = 1 when the operands differ and A = 0
\* when they are equal.
C8_NotEqual ==
    At(LastOf(TheCompare) + 1) =>
        cpu.a = Truth(Relation("neq", LeftValue, RightValue))

\* what the emitted code does: the BNE behind LDA #0 is never taken, so the
\* load of 1 always runs
C8_NotEqualIsOne == At(LastOf(TheCompare) + 1) => cpu.a = 1

C8_EqualCompared ==
    /\ At(LastOf(TheCompare) + 1) /\ CompareOp = "neq"
    /\ LeftValue = RightValue /\ LeftValue = 255
    /\ HitsOf(hits, First(TheCompare)) = 1

\* ---- multiplication: the same programs with x * y
SpecMul == InitWith(BinaryPrograms({"mul"}, Operands, Operands), JunkBytes) /\ [][Next]_vars

TheProduct == Stmt(1, 1) \o <<1>>
\* the anchor `start` puts before the subroutine's instructions
EntryOf(name) == Target(gen.code, name)
RtsOf(name) == EntryOf(name) + Len(Subroutine(name).code)
\* the JSR is the last instruction of a mul or div node
Returning(p) == At(LastOf(p) + 1) /\ HitsOf(hits, LastOf(p)) = 1

\* C9: entered by JSR with the operands at $00 and $01 as mul leaves them,
\* MUL returns with A = (operand at $00 * operand at $01) mod 256, whatever
\* X and Y held at entry.
C9_MulOfZeroPage ==
    /\ At(EntryOf("MUL")) => Rd(cpu, 0) = RightValue /\ Rd(cpu, 1) = LeftValue
    /\ Returning(TheProduct) => cpu.a = (LeftValue * RightValue) % 256

\* what MUL does: it multiplies X by Y, as the comment above it says, and
\* the code of mul loads neither
C9_MulOfXY ==
    /\ At(EntryOf("MUL")) => Rd(cpu, 0) = RightValue /\ Rd(cpu, 1) = LeftValue
    /\ Returning(TheProduct) =>
          cpu.a = (snap[EntryOf("MUL")].x * snap[EntryOf("MUL")].y) % 256

C9_MulReturned ==
    /\ Returning(TheProduct) /\ HitsOf(hits, RtsOf("MUL")) = 1
    /\ LeftValue = 2 /\ RightValue = 2

\* ---- division: the same programs with x / y, y not 0
Dividends == Operands \cup {3, 4, 5, 8, 13}
Divisors == (Operands \ {0}) \cup {3, 5}
SpecDiv == InitWith(BinaryPrograms({"div"}, Dividends, Divisors), {0}) /\ [][Next]_vars

TheQuotient == Stmt(1, 1) \o <<1>>
\* the DEX that closes a round of DIV's loop
DivRoundEnd == EntryOf("DIV") + 9
DivRounds == 8

\* C10: entered with the dividend at $00 and a divisor in 1..255 at $01, DIV
\* returns after 8 rounds of its loop with A = floor(dividend / divisor).
C10_DivQuotient ==
    /\ At(EntryOf("DIV")) => Rd(cpu, 0) = LeftValue /\ Rd(cpu, 1) = RightValue
    /\ Generated => HitsOf(hits, DivRoundEnd) <= DivRounds
    /\ At(RtsOf("DIV")) =>
          /\ HitsOf(hits, DivRoundEnd) = DivRounds
          /\ cpu.a = LeftValue \div RightValue
    /\ Returning(TheQuotient) => cpu.a = LeftValue \div RightValue
    /\ AtBrk => cpu.y = LeftValue \div RightValue

C10_Divided ==
    /\ Returning(TheQuotient) /\ HitsOf(hits, RtsOf("DIV")) = 1
    /\ LeftValue = 255 /\ RightValue = 2 /\ cpu.a = 127
    /\ gen.code[DivRoundEnd].op = "dex"

\* ------------------------------------------------------------ listings
\* address injector and assembler on hand-made instruction lists:
\*     <nb fillers>  bne tgt  <na fillers>  rts
\* with the label tgt on the entry w (0: on none), as the entry's own label
\* or as a label-only entry put before it; a filler is `clc`, `lda #0` or
\* `jmp tgt` (1, 2 or 3 bytes)
MaxFill == 3
Orgs == {0, Org}

FillerOf(size) ==
    CASE size = 1 -> Instruction("clc", "imp", -1, "", "")
      [] size = 2 -> Instruction("lda", "imm", 0, "", "")
      [] OTHER -> Instruction("jmp", "abs", -1, "tgt", "")

Unlabelled(nb, na, size) ==
    [j \in 1..nb |-> FillerOf(size)]
    \o <<Instruction("bne", "rel", -1, "tgt", "")>>
    \o [j \in 1..na |-> FillerOf(size)]
    \o <<Instruction("rts", "imp", -1, "", "")>>

LabelOn(code, w, anchored) ==
    IF w = 0 THEN code
    ELSE IF anchored
    THEN SubSeq(code, 1, w - 1) \o <<Instruction("", "", -1, "", "tgt")>>
         \o SubSeq(code, w, Len(code))
    ELSE [code EXCEPT ![w].label = "tgt"]

ListingsOf(nb, na, size) ==
    {LabelOn(Unlabelled(nb, na, size), w, anchored) :
        w \in 0..(nb + na + 2), anchored \in BOOLEAN}

Listings ==
    UNION {ListingsOf(nb, na, size) :
               nb \in 0..MaxFill, na \in 0..MaxFill, size \in 1..3}

InitListing ==
    /\ prg = Start(<<>>, <<>>)
    /\ \E l \in Listings : gen = [NewGenerator(prg) EXCEPT !.code = l]
    /\ phase = "generated"
    /\ cpu = Reset(0, 255)
    /\ hits = EmptyMap
    /\ snap = EmptyMap
    /\ calls = <<>>
    /\ org \in Orgs
    /\ obj = <<>>
    /\ raised = ""
    /\ listing = <<>>
    /\ NoDriver

SpecListing == InitListing /\ [][NextResolve]_vars

\* the address injector has returned
Resolved == phase \in {"resolved", "assembled"} \/ (phase = "failed" /\ obj # <<>>)

RECURSIVE SizesIn(_, _, _)
\* the bytes the entries a..b take (a label-only entry takes none)
SizesIn(code, a, b) ==
    IF a > b THEN 0
    ELSE IF a = b
    THEN (IF code[a].op = "" THEN 0 ELSE OPCODES[<<code[a].op, code[a].mode>>][2])
    ELSE SizesIn(code, a, (a + b) \div 2) + SizesIn(code, (a + b) \div 2 + 1, b)
\* the bytes the entries before entry i take
OffsetOf(code, i) == SizesIn(code, 1, i - 1)
Carriers(code, sym) == {i \in 1..Len(code) : code[i].label = sym}
\* the offset of the entry that carries the label sym
LabelOffset(code, sym) == OffsetOf(code, CHOOSE i \in Carriers(code, sym) : TRUE)
\* the relative instructions the injector had to rewrite
RelativeBranches(code) == {i \in 1..Len(code) : code[i].mode = "rel" /\ code[i].sym # ""}
\* label_offset - current_offset - 2
Distance(code, i) == LabelOffset(code, code[i].sym) - OffsetOf(code, i) - 2

\* C11: pass 2 rewrites the arg of a relative instruction with a symbolic
\* arg into d = label_offset - current_offset - 2 when d >= 0 and into
\* d + 256 when d < 0, whatever the target, the branch's own offset included
\* (d = -2, arg = 254).
C11_RelativeArg ==
    Resolved =>
        \A i \in RelativeBranches(listing) :
            gen.code[i].num = IF Distance(listing, i) >= 0
                              THEN Distance(listing, i)
                              ELSE Distance(listing, i) + 256

\* a branch to its own offset has been rewritten
C11_SelfBranch ==
    /\ phase = "resolved"
    /\ \E i \in RelativeBranches(listing) :
           /\ Distance(listing, i) = -2
           /\ gen.code[i].sym = "" /\ gen.code[i].num = -2

\* what the code does: the sign test is on label_offset - current_offset
C11_RelativeArgOfRaw ==
    Resolved =>
        \A i \in RelativeBranches(listing) :
            gen.code[i].num = IF Distance(listing, i) + 2 >= 0
                              THEN Distance(listing, i)
                              ELSE Distance(listing, i) + 256

\* ------------------------------------------------------------ stages
\* the three stages in a row on a parsed program
InitStages(programs) ==
    /\ prg \in programs
    /\ gen = NewGenerator(prg)
    /\ phase = "parsed"
    /\ cpu = Reset(0, 255)
    /\ hits = EmptyMap
    /\ snap = EmptyMap
    /\ calls = <<>>
    /\ org \in Orgs
    /\ obj = <<>>
    /\ raised = ""
    /\ listing = <<>>
    /\ NoDriver

\* ---- branches over long bodies
\*     var aaa = 1
\*     func main():
\*         while <cond>:         or      if <cond>: <n statements>
\*             <n statements>            [else: aaa = 0]
\*         return aaa
\* a statement being aaa = aaa * 2, aaa = aaa / 2 or aaa = aaa == 1
LongBody == 16
BodyLengths == {1, 2, LongBody}
BodyStatements ==
    {Assign("aaa", Bin("mul", Ref("aaa"), Imm(2))),
     Assign("aaa", Bin("div", Ref("aaa"), Imm(2))),
     Assign("aaa", Bin("eq", Ref("aaa"), Imm(1)))}
BranchConditions == {Ref("aaa"), Bin("lt", Ref("aaa"), Imm(3)), Bin("neq", Ref("aaa"), Imm(0))}
Statements(s, n) == [j \in 1..n |-> s]
Branching(stmt) ==
    Start(<<VarInit("aaa", Imm(1))>>, <<Main(<<>>, <<stmt, Ret(Ref("aaa"))>>)>>)
BranchPrograms ==
    {Branching(While(c, Statements(s, n))) :
        c \in BranchConditions, s \in BodyStatements, n \in BodyLengths}
    \cup {Branching(IfStmt(<<IfBranch(c, Statements(s, n))>>)) :
              c \in BranchConditions, s \in BodyStatements, n \in BodyLengths}
    \cup {Branching(IfStmt(<<IfBranch(c, Statements(s, n)),
                             ElseBranch(<<Assign("aaa", Imm(0))>>)>>)) :
              c \in BranchConditions, s \in BodyStatements, n \in BodyLengths}

SpecBranch == InitStages(BranchPrograms) /\ [][NextStages]_vars

\* an unsigned byte read as a two's-complement displacement
Signed(b) == IF b >= 128 THEN b - 256 ELSE b
\* the while or if of a program of BranchPrograms, and its body
TheBranching == Stmt(1, 1)
TheBody == TheBranching \o (IF prg.ch[2].ch[1].ch[3].data = "while_stmt"
                             THEN <<2>> ELSE <<1, 2>>)
\* the bytes the instructions of node p take
BytesOf(p) == OffsetOf(gen.code, LastOf(p) + 1) - OffsetOf(gen.code, First(p))

\* C12: once generator and address injector have passed, every relative
\* instruction has an arg in 0..255 that, read as a two's-complement
\* displacement d, satisfies offset of the branch + 2 + d = offset of its
\* target label, also when the body of a while or an if takes 126 bytes or
\* more: none of these programs fails in a stage, so each gets its legal
\* displacements.
C12_LegalDisplacements ==
    /\ Resolved =>
          \A i \in RelativeBranches(listing) :
              /\ gen.code[i].num \in 0..255
              /\ OffsetOf(gen.code, i) + 2 + Signed(gen.code[i].num)
                     = LabelOffset(listing, listing[i].sym)
    /\ phase # "failed"

\* a while with a body of 126 bytes or more has been resolved, with a
\* backward and a forward branch in the list
C12_LongWhileResolved ==
    /\ phase = "resolved"
    /\ NodeAt(prg, TheBranching).data = "while_stmt"
    /\ BytesOf(TheBody) >= 126
    /\ \E i, j \in RelativeBranches(listing) :
           gen.code[i].num >= 128 /\ gen.code[j].num < 128

\* ---- absolute targets
\* the JMPs and JSRs the injector had to rewrite
Jumps(code) == {i \in 1..Len(code) : code[i].op \in {"jmp", "jsr"} /\ code[i].sym # ""}
Instructions(code) == {i \in 1..Len(code) : code[i].op # ""}
OpcodeOf(e) == OPCODES[<<e.op, e.mode>>][1]
\* the byte at index k (from 0) of the image
ByteAt(k) == obj[k + 1]
Assembled == phase = "assembled"

\* C13: after injector and assembler, a JMP or JSR to a label is the opcode,
\* then (org + L) & 0xFF, then (org + L) >> 8, L being the sum of the sizes
\* of the entries before the one that carries the label, which is where the
\* first byte of the labelled instruction is in the image.
C13_AbsoluteTargets ==
    Assembled =>
        /\ Len(obj) = OffsetOf(listing, Len(listing) + 1)
        /\ \A i \in Instructions(listing) :
               ByteAt(OffsetOf(listing, i)) = OpcodeOf(listing[i])
        /\ \A i \in Jumps(listing) :
               LET at == OffsetOf(listing, i)
                   target == LabelOffset(listing, listing[i].sym)
               IN  /\ InstrSize(listing[i]) = 3
                   /\ ByteAt(at + 1) = (org + target) % 256
                   /\ ByteAt(at + 2) = (org + target) \div 256

\* a JSR to MUL and a JMP, to targets beyond the first 256 bytes, assembled at
\* a non-zero org
C13_FarCallAssembled ==
    /\ Assembled /\ org = Org
    /\ \E i, j \in Jumps(listing) :
           /\ listing[i].op = "jsr" /\ listing[i].sym = "MUL"
           /\ listing[j].op = "jmp"
           /\ LabelOffset(listing, "MUL") > 255
           /\ LabelOffset(listing, listing[j].sym) > 255
           /\ ByteAt(OffsetOf(listing, i) + 2) = (Org + LabelOffset(listing, "MUL")) \div 256

\* ---- stack reservation
\*     func main():
\*         var arr[n]        (and, in every second program, var bbb)
\*         return 1
\* for the sizes about the DEX limit (5) and the accepted maximum (255)
MaxSmallLocals == 8
ArraySizes == (1..MaxSmallLocals) \cup {254, 255, 256}
LocalsPrograms ==
    {Start(<<>>, <<Main(<<Array("arr", n)>>, <<Ret(Imm(1))>>)>>) : n \in ArraySizes}
    \cup {Start(<<>>, <<Main(<<Array("arr", n), Var("bbb")>>, <<Ret(Imm(1))>>)>>) :
              n \in ArraySizes}

SpecLocals == InitStages(LocalsPrograms) /\ [][NextStages]_vars

\* the bytes of main's locals
LocalsTotal == SumSeq([j \in 1..Len(prg.ch[2].ch[1].ch[2].ch) |->
                          LocalSize(prg.ch[2].ch[1].ch[2].ch[j])])
\* the instructions with a one-byte operand
ByteOperands(code) == {i \in 1..Len(code) : code[i].mode \in {"zp", "imm"}}

\* C14: every instruction the generator emits for an accepted program in
\* Zeropage or Immediate mode has size 2 and an integer arg in 0..255, the
\* stack reservation of a function with 6 to 255 bytes of locals included.
C14_ByteOperands ==
    Generated =>
        \A i \in ByteOperands(gen.code) :
            /\ InstrSize(gen.code[i]) = 2
            /\ gen.code[i].sym = ""
            /\ gen.code[i].num \in 0..255

\* a function with 255 bytes of locals is accepted and reserves them
C14_MaximumReserved ==
    /\ Generated /\ LocalsTotal = 255
    /\ \E i \in ByteOperands(gen.code) :
           /\ gen.code[i].op = "sbc" /\ gen.code[i].num = 256
           /\ gen.code[i - 1].op = "sec" /\ gen.code[i + 1].op = "tax"

\* what holds: the operands are bytes unless the locals take 255 bytes
C14_ByteOperandsBelowMaximum ==
    Generated /\ LocalsTotal # 255 =>
        \A i \in ByteOperands(gen.code) :
            /\ InstrSize(gen.code[i]) = 2
            /\ gen.code[i].sym = ""
            /\ gen.code[i].num \in 0..255

\* ---- labels
\*     func <n1>(): return 1
\*     func <n2>(): return 2
\*     func main(): return <n1>() | <n2>() | 2 * 3 | 6 / 3
FunctionNames == {"fff", "ggg", "MUL", "DIV"}
LabelBodies(n1, n2) ==
    {Call(n1, <<>>), Call(n2, <<>>), Bin("mul", Imm(2), Imm(3)), Bin("div", Imm(6), Imm(3))}
LabelProgram(n1, n2, e) ==
    Start(<<>>, <<Func(n1, <<>>, <<>>, <<Ret(Imm(1))>>),
                  Func(n2, <<>>, <<>>, <<Ret(Imm(2))>>),
                  Main(<<>>, <<Ret(e)>>)>>)
LabelPrograms ==
    UNION {{LabelProgram(n1, n2, e) : e \in LabelBodies(n1, n2)} :
               n1 \in FunctionNames, n2 \in FunctionNames}

SpecLabels == InitStages(LabelPrograms) /\ [][NextStages]_vars

LabelsOfCode(code) == {code[i].label : i \in 1..Len(code)} \ {""}
SymbolsOf(code) == {code[i].sym : i \in 1..Len(code)} \ {""}

\* C15: after a successful generator run no label is carried by two entries
\* (function names, L<n> labels, MUL and DIV together) and every symbolic arg
\* names a label some entry carries, so that the injector neither raises
\* UndefinedLabel nor overwrites a label's offset.
C15_LabelsUnique ==
    /\ Generated =>
          /\ \A l \in LabelsOfCode(gen.code) : Cardinality(Carriers(gen.code, l)) = 1
          /\ SymbolsOf(gen.code) \subseteq LabelsOfCode(gen.code)
    /\ raised # "UndefinedLabel"

\* a function defined twice has been generated, and called
C15_FunctionTwice ==
    /\ Generated
    /\ Cardinality(Carriers(gen.code, "fff")) = 2
    /\ \E i \in 1..Len(gen.code) : gen.code[i].op = "jsr" /\ gen.code[i].sym = "fff"

\* what holds: every symbolic arg names a carried label
C15_SymbolsDefined ==
    /\ Generated => SymbolsOf(gen.code) \subseteq LabelsOfCode(gen.code)
    /\ raised # "UndefinedLabel"

\* ---- layout
\*     [var aaa = 1 | var aaa = 2 * 3 ; var bbb = 2]
\*     [func fff(): return <e>]
\*     [func main(): return <e>]
\* <e> with no, one or two multiplications and divisions, or a call of main
LayoutExpressions ==
    {Imm(1),
     Bin("mul", Imm(2), Imm(3)),
     Bin("div", Imm(6), Imm(3)),
     Bin("mul", Bin("mul", Imm(2), Imm(3)), Imm(2)),
     Bin("add", Bin("mul", Imm(2), Imm(3)), Bin("div", Imm(6), Imm(3))),
     Call("main", <<>>)}
LayoutGlobals ==
    {<<>>,
     <<VarInit("aaa", Imm(1))>>,
     <<VarInit("aaa", Bin("mul", Imm(2), Imm(3))), VarInit("bbb", Imm(2))>>}
Helper(e) == Func("fff", <<>>, <<>>, <<Ret(e)>>)
LayoutFunctions ==
    {<<>>}
    \cup {<<Helper(e)>> : e \in LayoutExpressions}
    \cup {<<Main(<<>>, <<Ret(e)>>)>> : e \in LayoutExpressions}
    \cup {<<Helper(e1), Main(<<>>, <<Ret(e2)>>)>> :
              e1 \in LayoutExpressions, e2 \in LayoutExpressions}
LayoutPrograms == {Start(gs, fs) : gs \in LayoutGlobals, fs \in LayoutFunctions}

SpecLayout == InitStages(LayoutPrograms) /\ [][NextStages]_vars

\* the source defines a function main
DefinesMain == \E p \in FuncPaths : NodeAt(prg, p).name = "main"
\* the entry a line of a listing becomes (of an instruction without label)
IsLine(e, op, mode, num, sym) ==
    e.op = op /\ e.mode = mode /\ e.num = num /\ e.sym = sym /\ e.label = ""
\* where the call of main is: behind the global initialisers
JsrMainAt == LastOf(<<1>>) + 1
\* where the runtime subroutines start: behind the last function
SubroutinesAt == LastOf(<<2, Len(prg.ch[2].ch)>>) + 1
\* the routine's label and body are the entries from i on
RoutineAt(code, i, routine) ==
    /\ i + Len(routine.code) <= Len(code)
    /\ code[i].op = "" /\ code[i].label = routine.name
    /\ \A k \in 1..Len(routine.code) : code[i + k].op = routine.code[k].op
RECURSIVE RoutinesFrom(_, _, _)
\* the routines named in names, one behind the other, are the rest of the list
RoutinesFrom(code, i, names) ==
    IF names = <<>> THEN i = Len(code) + 1
    ELSE /\ RoutineAt(code, i, Subroutine(Head(names)))
         /\ RoutinesFrom(code, i + 1 + Len(Subroutine(Head(names)).code), Tail(names))

\* C16: an accepted program defines main, and its list is, in this order, the
\* base pointer initialisation, the global initialisers, one JSR main with BRK
\* behind it, all functions, the runtime subroutines; a program without main
\* is rejected with UndefinedFunction.
C16_Layout ==
    /\ Generated =>
          /\ DefinesMain /\ Has(gen.functions, "main")
          /\ IsLine(gen.code[1], "lda", "imm", 0, "")
          /\ IsLine(gen.code[2], "sta", "zp", base_ptr + 1, "")
          /\ IsLine(gen.code[3], "lda", "imm", 1, "")
          /\ IsLine(gen.code[4], "sta", "zp", arg_base_ptr + 1, "")
          /\ First(<<1>>) = 5
          /\ IsLine(gen.code[JsrMainAt], "jsr", "abs", -1, "main")
          /\ IsLine(gen.code[JsrMainAt + 1], "brk", "imp", -1, "")
          /\ \A i \in 1..(JsrMainAt - 1) : gen.code[i].op \notin {"jsr", "brk"} \/ gen.code[i].sym \in {"MUL", "DIV"}
          /\ \A p \in FuncPaths :
                 /\ First(p) = IF p[2] = 1 THEN JsrMainAt + 2 ELSE LastOf(<<2, p[2] - 1>>) + 1
                 /\ gen.code[First(p)].label = NodeAt(prg, p).name
                 /\ gen.code[LastOf(p)].op = "rts"
          /\ RoutinesFrom(gen.code, SubroutinesAt, gen.required)
    /\ ~DefinesMain /\ phase # "parsed" => phase = "failed" /\ gen.err = "UndefinedFunction"

\* a program with global initialisers, two functions and both subroutines has
\* been generated
C16_FullLayout ==
    /\ Generated
    /\ JsrMainAt > 5
    /\ Len(prg.ch[2].ch) = 2
    /\ Len(gen.required) = 2
    /\ SubroutinesAt < Len(gen.code)

\* ---- runtime subroutines
RECURSIVE CountNodes(_, _)
\* the nodes of the tree n with rule d
CountNodes(n, d) ==
    (IF n.data = d THEN 1 ELSE 0) + SumSeq([j \in 1..Len(n.ch) |-> CountNodes(n.ch[j], d)])
\* where the list holds the routine's label and body
BodiesOf(routine) ==
    {i \in 1..Len(gen.code) : RoutineAt(gen.code, i, routine)}
Copies(d) == IF CountNodes(prg, d) > 0 THEN 1 ELSE 0

\* C17: after start the list holds the body of MUL (of DIV) once if the
\* program has at least one mul (div) node, however many, and not at all if it
\* has none.
C17_SubroutineOnce ==
    Generated =>
        /\ Cardinality(BodiesOf(MUL)) = Copies("mul")
        /\ Cardinality(BodiesOf(DIV)) = Copies("div")
        /\ Cardinality(Carriers(gen.code, "MUL")) = Copies("mul")
        /\ Cardinality(Carriers(gen.code, "DIV")) = Copies("div")

\* a program with three multiplications and no division has been generated
C17_ManyProducts ==
    /\ Generated
    /\ CountNodes(prg, "mul") >= 3 /\ CountNodes(prg, "div") = 0
    /\ Cardinality(BodiesOf(MUL)) = 1

\* ---- scopes
\*     var aaa = 5
\*     var bbb = 10
\* and   "local":   func main():               "arg":  func fff(aaa):
\*                      var aaa = aaa + k                  aaa = aaa + d
\*                      aaa = aaa + d                      return aaa
\*                      return aaa                     func main(): return fff(k)
\*       "global":  func main():               "both": func fff(bbb):
\*                      aaa = aaa + d                      var aaa = bbb + aaa
\*                      return aaa                         return aaa
\*                                                     func main(): return fff(k)
\* and the programs that name a variable no scope holds
GlobalValue == 5
ScopeGlobals == <<VarInit("aaa", Imm(GlobalValue)), VarInit("bbb", Imm(10))>>
ScopeKinds == {"local", "arg", "global", "both"}
ScopeProgram(kind, k, d) ==
    CASE kind = "local" ->
           Start(ScopeGlobals,
                 <<Main(<<VarInit("aaa", Bin("add", Ref("aaa"), Imm(k)))>>,
                        <<Assign("aaa", Bin("add", Ref("aaa"), Imm(d))),
                          Ret(Ref("aaa"))>>)>>)
      [] kind = "arg" ->
           Start(ScopeGlobals,
                 <<Func("fff", <<Arg("aaa")>>, <<>>,
                        <<Assign("aaa", Bin("add", Ref("aaa"), Imm(d))),
                          Ret(Ref("aaa"))>>),
                   Main(<<>>, <<Ret(Call("fff", <<Imm(k)>>))>>)>>)
      [] kind = "both" ->
           Start(ScopeGlobals,
                 <<Func("fff", <<Arg("bbb")>>,
                        <<VarInit("aaa", Bin("add", Ref("bbb"), Ref("aaa")))>>,
                        <<Ret(Ref("aaa"))>>),
                   Main(<<>>, <<Ret(Call("fff", <<Imm(k)>>))>>)>>)
      [] OTHER ->
           Start(ScopeGlobals,
                 <<Main(<<>>, <<Assign("aaa", Bin("add", Ref("aaa"), Imm(d))),
                                Ret(Ref("aaa"))>>)>>)
ScopePrograms == {ScopeProgram(kind, k, d) : kind \in ScopeKinds, k \in Operands, d \in {0, 3}}

\* a ref or an assign to ccc, which nothing declares, or to lll, a local of
\* another function
UnknownNames ==
    {Start(ScopeGlobals, <<Main(<<>>, <<Ret(Ref("ccc"))>>)>>),
     Start(ScopeGlobals, <<Main(<<>>, <<Assign("ccc", Imm(1)), Ret(Imm(0))>>)>>),
     Start(ScopeGlobals, <<Main(<<VarInit("ddd", Ref("ccc"))>>, <<Ret(Imm(0))>>)>>),
     Start(<<VarInit("aaa", Ref("ccc"))>>, <<Main(<<>>, <<Ret(Imm(0))>>)>>),
     Start(ScopeGlobals, <<Func("fff", <<Arg("ppp")>>, <<VarInit("lll", Imm(1))>>, <<Ret(Imm(0))>>),
                           Main(<<>>, <<Ret(Ref("lll"))>>)>>),
     Start(ScopeGlobals, <<Func("fff", <<Arg("ppp")>>, <<VarInit("lll", Imm(1))>>, <<Ret(Imm(0))>>),
                           Main(<<>>, <<Assign("ppp", Imm(1)), Ret(Imm(0))>>)>>)}

SpecScope == InitWith(ScopePrograms \cup UnknownNames, JunkBytes) /\ [][Next]_vars

\* the zero-page byte of the first global
FirstGlobal == Rd(cpu, reserved)
\* what the program returns and leaves in the global aaa
ScopeResult(kind, k, d) ==
    CASE kind = "local" -> <<(GlobalValue + k + d) % 256, GlobalValue>>
      [] kind = "arg" -> <<(k + d) % 256, GlobalValue>>
      [] kind = "both" -> <<(k + GlobalValue) % 256, GlobalValue>>
      [] OTHER -> <<(GlobalValue + d) % 256, (GlobalValue + d) % 256>>

\* C18: a name is looked up innermost scope first, then among the globals: a
\* local or an argument shadows the global of its name (the initialiser of the
\* shadowing local still reads the global; assigning the local leaves the
\* global as it was), a name only the globals hold is the global, and a ref or
\* assign to a name that no scope and no global holds raises
\* UndefinedVariable.
C18_ScopeResolution ==
    /\ \A kind \in ScopeKinds, k \in Operands, d \in {0, 3} :
           prg = ScopeProgram(kind, k, d) =>
               /\ phase # "failed"
               /\ AtBrk => <<cpu.y, FirstGlobal>> = ScopeResult(kind, k, d)
    /\ prg \in UnknownNames /\ phase # "parsed" =>
           phase = "failed" /\ gen.err = "UndefinedVariable"

\* a function whose local and argument shadow the globals has returned
C18_ShadowReturned ==
    /\ AtBrk /\ prg = ScopeProgram("both", 2, 3)
    /\ cpu.y = GlobalValue + 2 /\ FirstGlobal = GlobalValue

\* ------------------------------------------------------------ pipelines
IrOperands == {1, 2, 255}
IrOps == {"add", "sub", "mul", "div", "eq", "geq"}
IrExpressions ==
    {Imm(a) : a \in IrOperands}
    \cup {Bin(o, Imm(a), Imm(b)) : o \in IrOps, a \in IrOperands, b \in {2}}
    \cup {Bin(o, Bin(q, Imm(2), Imm(1)), Imm(a)) :
              o \in IrOps, q \in {"add", "mul"}, a \in {1}}
    \cup {Bin(o, Imm(a), Bin(q, Imm(2), Imm(1))) :
              o \in IrOps, q \in {"add", "mul"}, a \in {1}}
\* func main(): return e         func main(): var x = a
\* func main(): var x            (with x = a as the statement)
IrSources ==
    {Start(<<>>, <<Main(<<>>, <<Ret(e)>>)>>) : e \in IrExpressions}
    \cup {Start(<<>>, <<Main(<<VarInit("x", Imm(a))>>, <<>>)>>) : a \in IrOperands}
    \cup {Start(<<>>, <<Main(<<Var("x")>>, <<Assign("x", Imm(a))>>)>>) : a \in IrOperands}

Pipelines == {CompilerStages, NqStages, TargetStages}

\* a driver about to enter its loop; a caller of target_6502's STAGES has
\* put the three-address code into prg.ir
InitDriver ==
    /\ prg \in IrSources
    /\ gen = NewGenerator(prg)
    /\ phase = "parsed"
    /\ cpu = Reset(0, 255)
    /\ hits = EmptyMap
    /\ snap = EmptyMap
    /\ calls = <<>>
    /\ org \in Orgs
    /\ obj = <<>>
    /\ raised = ""
    /\ listing = <<>>
    /\ stages \in Pipelines
    /\ ir = IF stages = TargetStages THEN TacCode(IRGenerator(prg)) ELSE <<>>
    /\ ran = <<>>

SpecDriver == InitDriver /\ [][NextDriver]_vars

Generators == {"CodeGenerator", "AsmGenerator"}
Resolvers == {"AddressInjector"}
Assemblers == {"Assembler", "ObjGenerator"}
Symbolic(code) == {i \in 1..Len(code) : code[i].sym # ""}

\* C19: in every stage list a resolver runs only after a generator, an
\* assembler runs only after a resolver and as the last stage, and the list
\* the assembler is about to read or has read holds no symbolic argument
C19_StageOrder ==
    /\ \A i \in 1..Len(ran) :
          /\ ran[i] \in Resolvers => \E j \in 1..(i - 1) : ran[j] \in Generators
          /\ ran[i] \in Assemblers =>
                /\ \E j \in 1..(i - 1) : ran[j] \in Resolvers
                /\ i = Len(ran)
                /\ stages = <<>>
    /\ (stages # <<>> /\ Head(stages) \in Assemblers /\ phase # "failed") =>
          Symbolic(gen.code) = {}
    /\ raised # "TypeError"

\* nq has assembled a list that no resolver has seen
C19_NqAssembledUnresolved ==
    /\ ran = NqStages
    /\ phase = "assembled"
    /\ obj # <<>>

\* target_6502's list has resolved the JSR to the multiplication routine
C19_TargetResolved ==
    /\ ran = TargetStages
    /\ phase = "assembled"
    /\ Symbolic(listing) # {}
    /\ Symbolic(gen.code) = {}

\* ------------------------------------------------------------ failures
\* sources a stage fails on: an unknown name, no main, locals beyond the
\* stack (generator), an operand beyond a byte (assembler); and, among the
\* local sizes, sources every stage accepts
NoMain ==
    {Start(<<>>, <<>>),
     Start(<<>>, <<Func("fff", <<>>, <<>>, <<Ret(Imm(1))>>)>>),
     Start(ScopeGlobals, <<Func("fff", <<>>, <<>>, <<Ret(Imm(1))>>)>>)}
FailingPrograms == LocalsPrograms \cup UnknownNames \cup NoMain

SpecFailing == InitStages(FailingPrograms) /\ [][NextStages]_vars

\* the stage that raised
GeneratorFailed == phase = "failed" /\ gen.err # ""
ResolverFailed == phase = "failed" /\ gen.err = "" /\ Symbolic(gen.code) # {}
AssemblerFailed == phase = "failed" /\ gen.err = "" /\ Symbolic(gen.code) = {}

\* C20: after a stage has raised, the record is as it was when the stage
\* began: a failed generator has left no instruction, a failed resolver has
\* left the list it received, and the byte image is empty
C20_NoPartialOutput ==
    /\ GeneratorFailed => gen.code = <<>> /\ obj = <<>>
    /\ ResolverFailed => gen.code = listing /\ obj = <<>>
    /\ AssemblerFailed => obj = <<>>

\* the generator has raised on an unknown name with instructions in the list
C20_GeneratorLeftInstructions ==
    /\ GeneratorFailed
    /\ gen.err = "UndefinedVariable"
    /\ gen.code # <<>>

\* the assembler has raised with bytes in the image
C20_AssemblerLeftBytes ==
    /\ AssemblerFailed
    /\ raised = "ValueError"
    /\ obj # <<>>

\* no main: the whole list is there when the generator raises
C20_NoMainLeftInstructions ==
    /\ GeneratorFailed
    /\ gen.err = "UndefinedFunction"
    /\ Len(gen.code) >= 6

\* ------------------------------------------------------------ assembling
\* lists of one or two entries for the assembler alone: an instruction of
\* size 1, 2 or 3 without or with an arg, or a label anchor
MaxEntries == 2
AssembleOps == {<<"clc", "imp">>, <<"rts", "imp">>, <<"lda", "imm">>,
                <<"sta", "zp">>, <<"bne", "rel">>, <<"jmp", "abs">>, <<"jsr", "abs">>}
AssembleArgs(mode) == IF mode = "abs" THEN {-1, 0, 255, 256, Org + 258} ELSE {-1, 0, 1, 255}
AssembleEntries ==
    {Instruction("", "", -1, "", "lbl")}
    \cup UNION {{Instruction(k[1], k[2], a, "", "") : a \in AssembleArgs(k[2])} :
                  k \in AssembleOps}
AssembleListings ==
    UNION {[1..n -> AssembleEntries] : n \in 1..MaxEntries}

InitAssemble ==
    /\ prg = Start(<<>>, <<>>)
    /\ \E l \in AssembleListings : gen = [NewGenerator(prg) EXCEPT !.code = l]
    /\ phase = "resolved"
    /\ cpu = Reset(0, 255)
    /\ hits = EmptyMap
    /\ snap = EmptyMap
    /\ calls = <<>>
    /\ org \in Orgs
    /\ obj = <<>>
    /\ raised = ""
    /\ listing = <<>>
    /\ NoDriver

\* the assembler on its own
NextAssemble == AssemblerExec

SpecAssemble == InitAssemble /\ [][NextAssemble]_vars

\* the bytes the opcode table asks for
EncodedBytes(e) ==
    IF e.op = "" THEN <<>>
    ELSE <<OPCODES[<<e.op, e.mode>>][1]>>
         \o (CASE InstrSize(e) = 2 -> <<e.num>>
               [] InstrSize(e) = 3 -> <<e.num % 256, e.num \div 256>>
               [] OTHER -> <<>>)
RECURSIVE EncodedAll(_)
EncodedAll(code) ==
    IF code = <<>> THEN <<>> ELSE EncodedBytes(Head(code)) \o EncodedAll(Tail(code))
\* the arg is absent where the size asks for one
ArgMissing(e) == e.op # "" /\ InstrSize(e) \in {2, 3} /\ ~HasArg(e)
\* the arg is present where the size asks for none
ArgSpare(e) == e.op # "" /\ InstrSize(e) = 1 /\ HasArg(e)
AssemblerDone == phase \in {"assembled", "failed"}

\* C21: the assembler fails with InternalError when some instruction's arg
\* is absent at size 2 or 3 or present at size 1; otherwise the image is,
\* instruction by instruction, the opcode and the arg bytes of its size, and
\* nothing for an anchor
C21_AssemblerBytes ==
    AssemblerDone =>
        IF \E i \in 1..Len(gen.code) : ArgMissing(gen.code[i]) \/ ArgSpare(gen.code[i])
        THEN phase = "failed" /\ raised = "InternalError"
        ELSE phase = "assembled" /\ obj = EncodedAll(gen.code)

\* an instruction of size 1 with an arg has been assembled without error
C21_SpareArgAssembled ==
    /\ phase = "assembled"
    /\ \E i \in 1..Len(gen.code) : ArgSpare(gen.code[i])

\* the same with the failure on an absent arg only, a spare arg being dropped
C21_AssemblerBytesOfCode ==
    AssemblerDone =>
        IF \E i \in 1..Len(gen.code) : ArgMissing(gen.code[i])
        THEN phase = "failed" /\ raised = "InternalError"
        ELSE phase = "assembled" /\ obj = EncodedAll(gen.code)

\* ------------------------------------------------------------ temporaries
\* a - (b + c): the sum lands in A and is spilled before a is loaded
Spilling(a, b, c) == Bin("sub", Imm(a), Bin("add", Imm(b), Imm(c)))
\* a - (fff(b) + c): the call's result is spilled
SpillingCall(a, b, c) == Bin("sub", Imm(a), Bin("add", Call("fff", <<Imm(b)>>), Imm(c)))
Second == Func("fff", <<Arg("ppp"), Arg("qqq")>>, <<>>, <<Ret(Ref("qqq"))>>)
Same == Func("fff", <<Arg("ppp")>>, <<>>, <<Ret(Ref("ppp"))>>)
SpillOperands == {1, 2}
\* func main(): return 9 - (b + c)
\* var ggg = 9 - (b + c)              and then the same main
\* func main(): return 9 - ((8 - (b + c)) + 1)
\* func main(): return fff(1, 9 - (b + c))        with fff returning its second
\* func main(): return 9 - (fff(b) + c)           with fff returning its first
SpillPrograms ==
    UNION {{Start(<<>>, <<Main(<<>>, <<Ret(Spilling(9, b, c))>>)>>),
            Start(<<VarInit("ggg", Spilling(9, b, c))>>,
                  <<Main(<<>>, <<Ret(Spilling(9, b, c))>>)>>),
            Start(<<>>, <<Main(<<>>, <<Ret(Bin("sub", Imm(9),
                                               Bin("add", Spilling(8, b, c), Imm(1))))>>)>>),
            Start(<<>>, <<Second, Main(<<>>, <<Ret(Call("fff", <<Imm(1), Spilling(9, b, c)>>))>>)>>),
            Start(<<>>, <<Same, Main(<<>>, <<Ret(SpillingCall(9, b, c))>>)>>)} :
               b \in SpillOperands, c \in SpillOperands}

SpecSpill == InitWith(SpillPrograms, JunkBytes) /\ [][Next]_vars

\* the nodes _push gave a stack temporary (the sources have no locals)
Temporaries == {p \in DOMAIN gen.loc : gen.loc[p].k = "stk"}
\* the PHA of _push follows the node's own instructions
PhaOf(p) == LastOf(p) + 1
\* the reads of the temporary: `LDY #loc; op (base_ptr),Y` in the parent
ReadsOf(p) ==
    {j \in (PhaOf(p) + 1)..LastOf(ButLast(p)) :
        /\ gen.code[j].mode = "iny"
        /\ gen.code[j].num = base_ptr
        /\ gen.code[j - 1].op = "ldy"
        /\ gen.code[j - 1].num = gen.loc[p].n}
\* the address `op (base_ptr),Y` had when instruction j started (the high
\* byte of the base pointer is 0)
ReadAddress(j) == snap[j].bp + snap[j].y
\* the stack byte the PHA at i wrote
PushAddress(i) == 256 + snap[i].sp

\* C22: every read of a stack temporary goes to the byte its PHA wrote
C22_TemporaryReadBack ==
    Generated =>
        \A p \in Temporaries : \A j \in ReadsOf(p) :
            (Has(snap, j) /\ Has(snap, PhaOf(p))) =>
                ReadAddress(j) = PushAddress(PhaOf(p))

\* main, compiled after a global initialiser that spilled, has read its
\* temporary from another byte than the one its PHA wrote
C22_ReadAfterGlobalSpill ==
    /\ Generated
    /\ prg.ch[1].ch # <<>>
    /\ \E p \in Temporaries : \E j \in ReadsOf(p) :
          /\ p[1] = 2
          /\ Has(snap, j) /\ Has(snap, PhaOf(p))
          /\ ReadAddress(j) # PushAddress(PhaOf(p))

\* the same statement for the sources without globals and without calls
C22_TemporaryReadBackPlain ==
    (prg.ch[1].ch = <<>> /\ Len(prg.ch[2].ch) = 1) => C22_TemporaryReadBack

\* ------------------------------------------------------------ _push
PushGlobals == <<PtrVar("ptr"), Var("aaa"), Var("xxx")>>
PushOps == {"add", "sub"}
\* xxx = aaa; *ptr = aaa        the reference is found in A and kept there
\* *ptr = a op b                a byte in A is spilled
\* *ptr = &xxx                  a word in A and X is spilled
\* return a - (b + c)           the spill of a binary operation
PushPrograms ==
    {Start(PushGlobals, <<Main(<<>>, <<Assign("xxx", Ref(n)), MemAssign("ptr", Ref(n))>>)>>) :
        n \in {"aaa", "xxx"}}
    \cup {Start(PushGlobals, <<Main(<<>>, <<MemAssign("ptr", Bin(op, Imm(a), Imm(b)))>>)>>) :
             op \in PushOps, a \in SpillOperands, b \in SpillOperands}
    \cup {Start(PushGlobals, <<Main(<<>>, <<MemAssign("ptr", GetRef(n))>>)>>) :
             n \in {"aaa", "xxx"}}
    \cup {Start(PushGlobals, <<Main(<<>>, <<Ret(Spilling(9, b, c))>>)>>) :
             b \in SpillOperands, c \in SpillOperands}

SpecPush == InitWith(PushPrograms, JunkBytes) /\ [][Next]_vars

\* what _push did with a variable reference found in A
KeptInPlace(e) ==
    /\ e.emitted = <<>>
    /\ e.loc = VarOf(gen, NodeAt(gen.ast, e.v).name).loc
    /\ e.after = e.offset
\* what _push did with any other node found in A, lowering the offset by n
Spilled(e, n) ==
    /\ Len(e.emitted) = 1
    /\ e.emitted[1].op = "pha"
    /\ e.loc = StackOffset(255 + e.offset)
    /\ e.after = e.offset - n
\* one call of _push, the offset of a temporary going down by step[size]
PushedBy(e, step) ==
    IF ~e.tracked THEN e.emitted = <<>> /\ e.after = e.offset
    ELSE IF NodeAt(gen.ast, e.v).data \in {"ref", "var"} THEN KeptInPlace(e)
    ELSE Spilled(e, step[e.size])

\* C23: _push keeps a variable reference where the variable is, emitting
\* nothing; it spills any other node with one PHA to StackOffset(0xFF +
\* offset) and lowers the scope's offset by the size of the value, 1 or 2;
\* with nothing tracked in A it does nothing
C23_PushBySize ==
    \A i \in 1..Len(gen.pushes) :
        gen.pushes[i].err = "" => PushedBy(gen.pushes[i], [n \in 0..2 |-> n])

\* `*ptr = &xxx`: a word was spilled with one PHA and the offset lowered by 1
C23_WordSpilled ==
    \E i \in 1..Len(gen.pushes) :
        /\ gen.pushes[i].err = ""
        /\ gen.pushes[i].size = 2
        /\ Spilled(gen.pushes[i], 1)

\* the same statement with the offset lowered by 1 whatever the size
C23_PushByOne ==
    \A i \in 1..Len(gen.pushes) :
        gen.pushes[i].err = "" => PushedBy(gen.pushes[i], [n \in 0..2 |-> 1])

\* a variable reference found in A was kept in place
C23_ReferenceKept ==
    \E i \in 1..Len(gen.pushes) :
        /\ gen.pushes[i].tracked
        /\ NodeAt(gen.ast, gen.pushes[i].v).data = "ref"
        /\ KeptInPlace(gen.pushes[i])

\* ------------------------------------------------- scopes of if and while
\* e - (b + c): the sum is spilled before e is loaded
Minus(e, b, c) == Bin("sub", e, Bin("add", Imm(b), Imm(c)))
Countdown == Assign("xxx", Minus(Ref("xxx"), 0, 1))
\* if a - (b + c): xxx = 9 - (b + c)   else: xxx = 8 - (b + c)
\* if a - (b + c): return 9 - (b + c)
\* while xxx - (1 + 1): xxx = xxx - (0 + 1)
\* while xxx - (1 + 1): if xxx - (2 + 1): xxx = xxx - (0 + 1)
\*                      else: xxx = 2
\* each followed by return xxx; and, with a local iii = 0,
\* while xxx - (1 + 1): xxx = xxx - (0 + 1); iii = iii + (2 - 1)
\* followed by return iii
RestorePrograms ==
    {Start(<<VarInit("xxx", Imm(1))>>,
           <<Main(<<>>, <<IfStmt(<<IfBranch(Minus(Imm(a), b, c),
                                            <<Assign("xxx", Minus(Imm(9), b, c))>>),
                                   ElseBranch(<<Assign("xxx", Minus(Imm(8), b, c))>>)>>),
                          Ret(Ref("xxx"))>>)>>) :
        a \in 2..4, b \in SpillOperands, c \in SpillOperands}
    \cup {Start(<<VarInit("xxx", Imm(1))>>,
                <<Main(<<>>, <<IfStmt(<<IfBranch(Minus(Imm(a), b, c),
                                                 <<Ret(Minus(Imm(9), b, c))>>)>>),
                               Ret(Ref("xxx"))>>)>>) :
             a \in 2..4, b \in SpillOperands, c \in SpillOperands}
    \cup {Start(<<VarInit("xxx", Imm(2 + n))>>,
                <<Main(<<>>, <<While(Minus(Ref("xxx"), 1, 1), <<Countdown>>),
                               Ret(Ref("xxx"))>>)>>) : n \in 0..MaxIter}
    \cup {Start(<<VarInit("xxx", Imm(2 + n))>>,
                <<Main(<<>>, <<While(Minus(Ref("xxx"), 1, 1),
                                     <<IfStmt(<<IfBranch(Minus(Ref("xxx"), 2, 1), <<Countdown>>),
                                                ElseBranch(<<Assign("xxx", Imm(2))>>)>>)>>),
                               Ret(Ref("xxx"))>>)>>) : n \in 0..MaxIter}
    \cup {Start(<<VarInit("xxx", Imm(2 + n))>>,
                <<Main(<<VarInit("iii", Imm(0))>>,
                       <<While(Minus(Ref("xxx"), 1, 1),
                               <<Countdown,
                                 Assign("iii", Bin("add", Ref("iii"),
                                                   Bin("sub", Imm(2), Imm(1))))>>),
                         Ret(Ref("iii"))>>)>>) : n \in 0..MaxIter}

SpecRestore == InitWith(RestorePrograms, JunkBytes) /\ [][Next]_vars

\* the conditions and bodies that if_stmt and while_stmt visit in a scope
Scoped ==
    {p \in DOMAIN gen.span :
        /\ p # <<>>
        /\ NodeAt(prg, ButLast(p)).data
              \in {"if_branch", "elif_branch", "else_branch", "while_stmt"}}
IsCondition(p) == NodeAt(prg, ButLast(p)).data # "else_branch" /\ Last(p) = 1
RestoreOps == {"tsx", "inx", "txs"}
\* the instruction that follows the scope of p: the CMP #0 after a
\* condition, the first instruction past the restore after a body
ScopeEnd(p) ==
    LET after == {j \in (LastOf(p) + 1)..Len(gen.code) :
                     IF IsCondition(p) THEN gen.code[j].op = "cmp"
                     ELSE gen.code[j].op \notin RestoreOps}
    IN  CHOOSE j \in after : \A k \in after : j <= k
\* the TSX of the restore _pop_scope emitted for the scope of p
Restores(p) == {j \in (LastOf(p) + 1)..(ScopeEnd(p) - 1) : gen.code[j].op = "tsx"}
Conditionals == {p \in DOMAIN gen.span : NodeAt(prg, p).data \in {"if_stmt", "while_stmt"}}

\* C24: behind every scope of an if or while condition or body SP is what
\* it was at the scope's entry, on every path and iteration; behind the
\* whole statement SP is what it was before it; and the restore leaves the
\* condition's value in A as it was
C24_ScopeRestoresSP ==
    Generated =>
        /\ \A p \in Scoped :
              (At(ScopeEnd(p)) /\ Has(snap, First(p))) => cpu.sp = snap[First(p)].sp
        /\ \A s \in Conditionals :
              (At(LastOf(s)) /\ Has(snap, First(s))) => cpu.sp = snap[First(s)].sp
        /\ \A p \in Scoped : \A j \in Restores(p) :
              (IsCondition(p) /\ At(ScopeEnd(p)) /\ Has(snap, j)) => cpu.a = snap[j].a

\* a loop has come a second time to the CMP #0 behind its condition's
\* restore
C24_SecondIterationRestored ==
    /\ Generated
    /\ \E p \in Scoped :
          /\ NodeAt(prg, ButLast(p)).data = "while_stmt"
          /\ IsCondition(p)
          /\ Restores(p) # {}
          /\ At(ScopeEnd(p))
          /\ HitsOf(hits, ScopeEnd(p)) >= 1

\* ------------------------------------------------- locals of a function
\* a byte, a pointer, an array of 3 and an array of 6 bytes: up to 5 bytes
\* are reserved by a DEX run, more by SBC
LocalKinds == {<<"var", 0>>, <<"ptr", 0>>, <<"array", 3>>, <<"array", 6>>}
MaxDeclared == 3
LocalOf(kind, n) ==
    CASE kind[1] = "var" -> Var(n)
      [] kind[1] = "ptr" -> PtrVar(n)
      [] OTHER -> Array(n, kind[2])
\* func main(): var ...; return 9 - (1 + 2)      alone, and after a global
\* var ggg = 9 - (1 + 2) whose initialiser spills a temporary
ReservePrograms ==
    UNION {{Start(gl, <<Main([i \in 1..n |-> LocalOf(kinds[i], "loc" \o ToString(i))],
                            <<Ret(Spilling(9, 1, 2))>>)>>) :
               kinds \in [1..n -> LocalKinds],
               gl \in {<<>>, <<VarInit("ggg", Spilling(9, 1, 2))>>}} :
           n \in 1..MaxDeclared}

SpecReserve == InitWith(ReservePrograms, JunkBytes) /\ [][Next]_vars

TheMain == <<2, 1>>
Declared == {TheMain \o <<2, i>> : i \in 1..Len(NodeAt(prg, TheMain \o <<2>>).ch)}
\* the offsets a local occupies
OffsetsOf(p) == gen.loc[p].n..(gen.loc[p].n + LocalSize(NodeAt(prg, p)) - 1)
\* the scope's offset on entry of main: what the global scope was left with
EntryOffset == gen.scope_offsets[1]
RECURSIVE SizeBefore(_)
\* bytes of the locals declared before the i-th
SizeBefore(i) ==
    IF i = 1 THEN 0
    ELSE SizeBefore(i - 1) + LocalSize(NodeAt(prg, TheMain \o <<2, i - 1>>))
\* the address `(base_ptr),Y` gives offset n
OffsetAddress(n) == Rd(cpu, base_ptr) + n
\* the machine is in main's body, behind the reservation
InBody ==
    /\ Generated /\ cpu.st = "run"
    /\ cpu.pc \in First(Stmt(1, 1))..LastOf(Stmt(1, 1))

\* C25: the locals get offsets downward from 0xFF + scope offset, a local
\* of size s at 0xFF + offset - (s - 1) and the next s bytes lower; their
\* ranges are disjoint and within 0..0xFF; behind the reservation SP is
\* strictly below every local, and no PHA of the body writes into a local
C25_LocalsBelowSP ==
    Generated =>
        /\ \A i \in 1..Cardinality(Declared) :
              gen.loc[TheMain \o <<2, i>>] =
                  StackOffset(255 + EntryOffset - SizeBefore(i)
                              - (LocalSize(NodeAt(prg, TheMain \o <<2, i>>)) - 1))
        /\ \A p \in Declared, q \in Declared :
              p # q => OffsetsOf(p) \cap OffsetsOf(q) = {}
        /\ \A p \in Declared : OffsetsOf(p) \subseteq 0..255
        /\ InBody =>
              \A p \in Declared : \A n \in OffsetsOf(p) : 256 + cpu.sp < OffsetAddress(n)

\* main, compiled after a global initialiser that spilled, is in its body
\* with SP on the lowest byte of its locals
C25_LocalAtSP ==
    /\ InBody
    /\ prg.ch[1].ch # <<>>
    /\ \E p \in Declared : 256 + cpu.sp = OffsetAddress(gen.loc[p].n)

\* the same statement for the sources without globals
C25_LocalsBelowSPPlain ==
    prg.ch[1].ch = <<>> => C25_LocalsBelowSP

\* --------------------------------------------- a byte into a pointer
PtrVarInit(n, e) == N("var", n, TRUE, 0, <<e>>)
PointerValues == {6, 16}
StoredValues == {5, 7}
\* var *ptr = v                 func main(): return 1
\* var *ptr                     func main(): ptr = v; return 1
\* var *ptr = v                 func main(): *ptr = w; return 1
\* var *ptr = v                 func main(): ptr[1] = w; return 1
BytePointerPrograms ==
    {Start(<<PtrVarInit("ptr", Imm(v))>>, <<Main(<<>>, <<Ret(Imm(1))>>)>>) :
        v \in PointerValues}
    \cup {Start(<<PtrVar("ptr")>>, <<Main(<<>>, <<Assign("ptr", Imm(v)), Ret(Imm(1))>>)>>) :
             v \in PointerValues}
    \cup {Start(<<PtrVarInit("ptr", Imm(v))>>,
                <<Main(<<>>, <<MemAssign("ptr", Imm(w)), Ret(Imm(1))>>)>>) :
             v \in PointerValues, w \in StoredValues}
    \cup {Start(<<PtrVarInit("ptr", Imm(v))>>,
                <<Main(<<>>, <<IndexAssign("ptr", Imm(1), Imm(w)), Ret(Imm(1))>>)>>) :
             v \in PointerValues, w \in StoredValues}

SpecBytePointer == InitWith(BytePointerPrograms, JunkBytes) /\ [][Next]_vars

\* the byte the source gives the pointer
PointerValue ==
    IF prg.ch[1].ch[1].ch # <<>> THEN prg.ch[1].ch[1].ch[1].val
    ELSE NodeAt(prg, Stmt(1, 1) \o <<1>>).val
\* the zero-page address of the global ptr
PointerAt == VarOf(gen, "ptr").loc.n
\* the first statement of main, when it stores through the pointer
TheStore == NodeAt(prg, Stmt(1, 1))
StoresThrough == TheStore.data \in {"mem_assign", "index_assign"}
StoreIndex == IF TheStore.data = "index_assign" THEN TheStore.ch[1].val ELSE 0
StoreValue == TheStore.ch[Len(TheStore.ch)].val

\* C26: a 1-byte value assigned to a pointer variable, or initialising it,
\* lands in the pointer's low byte with 0 in its high byte, and a store
\* through the pointer that follows writes to the zero-page address value
\* (plus index)
C26_ByteIntoPointer ==
    /\ phase # "failed"
    /\ AtBrk =>
          /\ Rd(cpu, PointerAt) = PointerValue
          /\ Rd(cpu, PointerAt + 1) = 0
          /\ StoresThrough => Rd(cpu, PointerValue + StoreIndex) = StoreValue

\* the program has run to its BRK with the byte in the pointer's low byte
\* and the pointer's high byte as the memory had it
C26_HighByteLeft ==
    /\ AtBrk
    /\ Rd(cpu, PointerAt) = PointerValue
    /\ Rd(cpu, PointerAt + 1) # 0
    /\ ~Has(cpu.mem, PointerAt + 1)

\* the low byte alone: it holds the value when the program has run
C26_LowByte ==
    AtBrk => Rd(cpu, PointerAt) = PointerValue

\* a source that stores through the pointer is not compiled
C26_StoreNotCompiled ==
    /\ phase = "failed"
    /\ StoresThrough
    /\ gen.err = "AttributeError"

\* ------------------------------------------- a second generator, same AST
\* a fresh CodeGenerator whose AST is the one `left` has visited: the loc,
\* size and labels attributes _setloc, _setsize and _getlabel set on the
\* nodes are still there
Revisiting(ast, left) ==
    [NewGenerator(ast) EXCEPT !.loc = left.loc, !.size = left.size, !.labels = left.labels]

\* CodeGenerator(): the generator exec starts from, fresh on a parsed AST,
\* fresh but for the node attributes on an AST that has been visited
Constructed ==
    IF phase = "parsed" THEN NewGenerator(prg) ELSE Revisiting(prg, gen)

\* CodeGenerator().exec(prg), on a parsed AST or once more on the AST of a
\* finished run; the first run's list is then kept in `listing`
CodeGeneratorExecOnce ==
    /\ phase \in {"parsed", "generated"}
    /\ gen' = visit(Constructed, <<>>)
    /\ listing' = IF phase = "parsed" THEN listing ELSE gen.code
    /\ phase' = IF phase = "generated" THEN "regenerated"
               ELSE IF gen'.err = "" THEN "generated" ELSE "failed"
    /\ UNCHANGED <<prg, cpu, hits, snap, calls, org, obj, raised, driver>>

NextAgain == CodeGeneratorExecOnce

\* return a op b                                  no label, no routine
\* if aaa == a: res = b     return res            labels
\* while ccc: ccc = ccc - 1    return a + b       labels
\* return a * b                                   a routine
\* if aaa == a: res = b     return res * 2        labels and a routine
\* while ccc: ccc = ccc - 1    return a / b       labels and a routine
AgainGlobals == <<VarInit("aaa", Imm(1)), VarInit("res", Imm(0)), VarInit("ccc", Imm(1))>>
AgainIf(a, b) == IfStmt(<<IfBranch(Bin("eq", Ref("aaa"), Imm(a)), <<Assign("res", Imm(b))>>)>>)
AgainWhile == While(Ref("ccc"), <<Assign("ccc", Bin("sub", Ref("ccc"), Imm(1)))>>)
AgainPrograms ==
    UNION {{Start(AgainGlobals, <<Main(<<>>, <<Ret(Bin("sub", Imm(a), Imm(b)))>>)>>),
            Start(AgainGlobals, <<Main(<<>>, <<AgainIf(a, b), Ret(Ref("res"))>>)>>),
            Start(AgainGlobals, <<Main(<<>>, <<AgainWhile, Ret(Bin("add", Imm(a), Imm(b)))>>)>>),
            Start(AgainGlobals, <<Main(<<>>, <<Ret(Bin("mul", Imm(a), Imm(b)))>>)>>),
            Start(AgainGlobals, <<Main(<<>>, <<AgainIf(a, b),
                                               Ret(Bin("mul", Ref("res"), Imm(2)))>>)>>),
            Start(AgainGlobals, <<Main(<<>>, <<AgainWhile,
                                               Ret(Bin("div", Imm(a), Imm(b)))>>)>>)} :
               a \in 0..MaxOperand, b \in 0..MaxOperand}

SpecAgain == InitWith(AgainPrograms, {0}) /\ [][NextAgain]_vars

Regenerated == phase = "regenerated"
\* the entries of the list that carry the label sym
DefinedAt(code, sym) == {i \in 1..Len(code) : code[i].label = sym}
LabelsIn(code) == {code[i].label : i \in 1..Len(code)} \ {""}

\* C27: the second generator, run over the AST the first has visited,
\* produces the list the first produced, and no label is defined twice in it
C27_SecondRunSame ==
    Regenerated =>
        /\ gen.err = ""
        /\ gen.code = listing
        /\ \A sym \in LabelsIn(gen.code) : Cardinality(DefinedAt(gen.code, sym)) = 1

\* the second run of a source with a loop or a branch and a runtime routine
\* has defined a label twice, in a list that differs from the first
C27_LabelDefinedTwice ==
    /\ Regenerated
    /\ gen.err = ""
    /\ gen.code # listing
    /\ \A sym \in LabelsIn(listing) : Cardinality(DefinedAt(listing, sym)) = 1
    /\ \E sym \in LabelsIn(gen.code) : Cardinality(DefinedAt(gen.code, sym)) > 1

\* the same statement for the sources that need no runtime routine
C27_SecondRunSameWithoutRoutine ==
    gen.required = <<>> => C27_SecondRunSame

\* such a source, with labels on its nodes, has been generated twice
C27_LabelsKept ==
    /\ Regenerated
    /\ gen.required = <<>>
    /\ gen.labels # EmptyMap
    /\ gen.code = listing

\* -------------------------------------------------- return ends a function
FirstValues == {1, 2}
LaterValues == {3, 4}
\* func main(): return a; xxx = 9; return b
\* func main(): if aaa == 1: return a       return b
\* func main(): while ccc: return a; ccc = 0        return b
\* func fff(): return a; return b       func main(): return fff()
\* func main(): xxx = 9; return a
LeavePrograms ==
    UNION {{Start(<<VarInit("xxx", Imm(0))>>,
                  <<Main(<<>>, <<Ret(Imm(a)), Assign("xxx", Imm(9)), Ret(Imm(b))>>)>>),
            Start(<<VarInit("aaa", Imm(1))>>,
                  <<Main(<<>>, <<IfStmt(<<IfBranch(Bin("eq", Ref("aaa"), Imm(c)),
                                                   <<Ret(Imm(a))>>)>>),
                                 Ret(Imm(b))>>)>>),
            Start(<<VarInit("ccc", Imm(c))>>,
                  <<Main(<<>>, <<While(Bin("eq", Ref("ccc"), Imm(1)),
                                       <<Ret(Imm(a)), Assign("ccc", Imm(0))>>),
                                 Ret(Imm(b))>>)>>),
            Start(<<>>, <<Func("fff", <<>>, <<>>, <<Ret(Imm(a)), Ret(Imm(b))>>),
                          Main(<<>>, <<Ret(Call("fff", <<>>))>>)>>),
            Start(<<VarInit("xxx", Imm(0))>>,
                  <<Main(<<>>, <<Assign("xxx", Imm(9)), Ret(Imm(a))>>)>>)} :
               a \in FirstValues, b \in LaterValues, c \in {0, 1}}

SpecLeave == InitWith(LeavePrograms, JunkBytes) /\ [][Next]_vars

\* the statements of function f, at any depth
StatementsIn(f) ==
    {p \in DOMAIN gen.span :
        /\ Len(p) > 2 /\ SubSeq(p, 1, 2) = f
        /\ NodeAt(prg, p).data \in {"ret", "assign", "if_stmt", "while_stmt"}}
ReturnsIn(f) == {p \in StatementsIn(f) : NodeAt(prg, p).data = "ret"}
\* the TAY of a return has executed
HasReturned(r) == HitsOf(hits, LastOf(r)) >= 1
\* the machine is in the code of statement q
Executing(q) == Generated /\ cpu.st = "run" /\ cpu.pc \in First(q)..LastOf(q)
\* the return of f that executed first: in these sources the one that
\* comes first in the text
FirstReturned(f) ==
    CHOOSE r \in ReturnsIn(f) :
        HasReturned(r) /\ \A q \in ReturnsIn(f) : HasReturned(q) => First(r) <= First(q)
\* the literal a return of a literal conveys
Conveyed(r) == NodeAt(prg, r \o <<1>>).val
LiteralReturns(f) == \A r \in ReturnsIn(f) : NodeAt(prg, r \o <<1>>).data = "imm"

\* C28: once a return has executed no later statement of the function
\* executes before its RTS, and at the RTS the value conveyed (in Y) is
\* that of the first return executed
C28_ReturnLeaves ==
    Generated =>
        \A f \in FuncPaths :
            /\ \A r \in ReturnsIn(f) : \A q \in StatementsIn(f) :
                  (HasReturned(r) /\ First(q) > LastOf(r)) => ~Executing(q)
            /\ (At(LastOf(f)) /\ LiteralReturns(f)) => cpu.y = Conveyed(FirstReturned(f))

\* a function is at its RTS with the value of a later return in Y
C28_LaterReturnConveyed ==
    /\ Generated
    /\ \E f \in FuncPaths :
          /\ At(LastOf(f))
          /\ LiteralReturns(f)
          /\ cpu.y # Conveyed(FirstReturned(f))
          /\ \E r \in ReturnsIn(f) :
                HasReturned(r) /\ First(r) > First(FirstReturned(f)) /\ cpu.y = Conveyed(r)

\* the same statement for the functions whose only return is their last
\* statement
C28_ReturnLast ==
    Generated =>
        \A f \in FuncPaths :
            (Cardinality(ReturnsIn(f)) = 1
             /\ \A q \in StatementsIn(f) : \A r \in ReturnsIn(f) : First(q) <= First(r))
            => /\ \A r \in ReturnsIn(f) : \A q \in StatementsIn(f) :
                     (HasReturned(r) /\ First(q) > LastOf(r)) => ~Executing(q)
               /\ (At(LastOf(f)) /\ LiteralReturns(f)) => cpu.y = Conveyed(FirstReturned(f))

\* such a function is at its RTS
C28_ReturnedLast ==
    /\ Generated
    /\ \E f \in FuncPaths :
          /\ At(LastOf(f))
          /\ LiteralReturns(f)
          /\ Cardinality(ReturnsIn(f)) = 1
          /\ cpu.y = Conveyed(FirstReturned(f))

\* ------------------------------------------- the condition of an if in A
\* the forms of a condition over the global aaa: literal, reference,
\* comparison, arithmetic, dereference, index and call
LoadedForms == {Bin("eq", Ref("aaa"), Imm(1)), Bin("gt", Ref("aaa"), Imm(0)),
                Bin("sub", Ref("aaa"), Imm(1)), Bin("add", Ref("aaa"), Imm(1)),
                Call("fff", <<>>)}
ConditionForms ==
    LoadedForms \cup {Imm(0), Imm(1), Ref("aaa"), Deref("ptr"), Index("ptr", Imm(0))}
LoopForms == {Ref("aaa"), Bin("gt", Ref("aaa"), Imm(0)), Bin("eq", Ref("aaa"), Imm(1))}
\* var aaa = a; var res = 0; var *ptr = 8      (aaa is the byte at 8)
\* func fff(): return aaa
\* func main(): if c: res = 1   else: res = 2       return res
\* func main(): while c: aaa = 0                    return res
ConditionGlobals(a) ==
    <<VarInit("aaa", Imm(a)), VarInit("res", Imm(0)), PtrVarInit("ptr", Imm(reserved))>>
ConditionPrograms ==
    {Start(ConditionGlobals(a),
           <<Func("fff", <<>>, <<>>, <<Ret(Ref("aaa"))>>),
             Main(<<>>, <<IfStmt(<<IfBranch(c, <<Assign("res", Imm(1))>>),
                                   ElseBranch(<<Assign("res", Imm(2))>>)>>),
                          Ret(Ref("res"))>>)>>) :
        a \in 0..MaxOperand, c \in ConditionForms}
    \cup {Start(ConditionGlobals(a),
                <<Func("fff", <<>>, <<>>, <<Ret(Ref("aaa"))>>),
                  Main(<<>>, <<While(c, <<Assign("aaa", Imm(0))>>),
                               Ret(Ref("res"))>>)>>) :
             a \in 0..MaxOperand, c \in LoopForms}

SpecCondition == InitWith(ConditionPrograms, {0}) /\ [][Next]_vars

\* the value aaa has now
Aaa == Rd(cpu, VarOf(gen, "aaa").loc.n)
\* the value the source gives the condition e now
ConditionValue(e) ==
    CASE e.data = "imm" -> e.val
      [] e.data \in {"ref", "deref", "index", "call"} -> Aaa
      [] e.data = "eq" -> Truth(Aaa = e.ch[2].val)
      [] e.data = "gt" -> Truth(Aaa > e.ch[2].val)
      [] e.data = "sub" -> (Aaa + 256 - e.ch[2].val) % 256
      [] e.data = "add" -> (Aaa + e.ch[2].val) % 256
IfConditions ==
    {p \in Scoped : IsCondition(p) /\ NodeAt(prg, ButLast(p)).data # "while_stmt"}
WhileConditions ==
    {p \in Scoped : IsCondition(p) /\ NodeAt(prg, ButLast(p)).data = "while_stmt"}
\* the machine is at the CMP #0 of condition p, A holding the condition
TestedInA(p) == At(ScopeEnd(p)) => cpu.a = ConditionValue(NodeAt(prg, p))

\* C29: when the CMP #0 of a conditional branch of an if executes, A holds
\* the value of the branch's condition, whatever its form, as it does at
\* the CMP #0 of a while
C29_ConditionInA ==
    Generated => \A p \in IfConditions \cup WhileConditions : TestedInA(p)

\* the CMP #0 of `if aaa:` is about to execute with aaa not in A
C29_ReferenceNotLoaded ==
    /\ Generated
    /\ \E p \in IfConditions :
          /\ NodeAt(prg, p).data = "ref"
          /\ At(ScopeEnd(p))
          /\ cpu.a # Aaa

\* the same statement for the conditions of while, and for the conditions
\* of if that are comparisons, arithmetic or calls
C29_ComputedConditionInA ==
    Generated =>
        \A p \in IfConditions \cup WhileConditions :
            (p \in WhileConditions \/ NodeAt(prg, p) \in LoadedForms) => TestedInA(p)

\* a while is at its CMP #0 with the variable of its condition loaded
C29_LoopReferenceLoaded ==
    /\ Generated
    /\ \E p \in WhileConditions :
          /\ NodeAt(prg, p).data = "ref"
          /\ At(ScopeEnd(p))
          /\ Aaa # 0
          /\ cpu.a = Aaa

\* ------------------------------------- an opcode for every emitted pair
PointerGlobals == <<VarInit("xxx", Imm(0)), PtrVarInit("ptr", Imm(reserved))>>
ByteParameter(a) == Func("fff", <<Arg("ppp")>>, <<>>, <<Ret(Bin("add", Ref("ppp"), Imm(a)))>>)
\* var xxx = 0; var *ptr = 8 and then
\* func main(): xxx = a; return xxx               a global target
\* func main(): var iii; return iii + a           a local read
\* func fff(ppp): return ppp + a    func main(): return fff(1)
\* func main(): var iii = a; return iii           a local target
\* func main(): var iii; iii = a; return iii
\* func main(): *ptr = a                          stores and loads through
\* func main(): ptr[1] = a                        a pointer
\* func main(): return *ptr + a
EncodablePrograms ==
    UNION {{Start(PointerGlobals, <<Main(<<>>, <<Assign("xxx", Imm(a)), Ret(Ref("xxx"))>>)>>),
            Start(PointerGlobals, <<Main(<<Var("iii")>>,
                                         <<Ret(Bin("add", Ref("iii"), Imm(a)))>>)>>),
            Start(PointerGlobals, <<ByteParameter(a),
                                    Main(<<>>, <<Ret(Call("fff", <<Imm(1)>>))>>)>>)} :
               a \in 0..MaxOperand}
StackTargetPrograms ==
    UNION {{Start(PointerGlobals, <<Main(<<VarInit("iii", Imm(a))>>, <<Ret(Ref("iii"))>>)>>),
            Start(PointerGlobals, <<Main(<<Var("iii")>>,
                                         <<Assign("iii", Imm(a)), Ret(Ref("iii"))>>)>>)} :
               a \in 0..MaxOperand}
ThroughPointerPrograms ==
    UNION {{Start(PointerGlobals, <<Main(<<>>, <<MemAssign("ptr", Imm(a))>>)>>),
            Start(PointerGlobals, <<Main(<<>>, <<IndexAssign("ptr", Imm(1), Imm(a))>>)>>),
            Start(PointerGlobals, <<Main(<<>>, <<Ret(Bin("add", Deref("ptr"), Imm(a)))>>)>>)} :
               a \in 0..MaxOperand}
OpcodePrograms == EncodablePrograms \cup StackTargetPrograms \cup ThroughPointerPrograms

SpecOpcode == InitStages(OpcodePrograms) /\ [][NextStages]_vars

\* the entries of the list whose (op, mode) is not a key of OPCODES
Unencodable(code) ==
    {i \in 1..Len(code) : code[i].op # "" /\ <<code[i].op, code[i].mode>> \notin DOMAIN OPCODES}

\* C30: every (op, mode) pair the generator emits has an entry in OPCODES,
\* the STA through (base_ptr),Y of a stack target and the LDA and STA
\* through a pointer included, so that no stage fails on an opcode lookup
C30_OpcodeForEveryPair ==
    /\ gen.err # "AttributeError"
    /\ Unencodable(gen.code) = {}
    /\ raised # "KeyError"

\* the resolver has failed on the lookup of the STA (base_ptr),Y that
\* stores to a local
C30_StackStoreNotInTable ==
    /\ phase = "failed"
    /\ raised = "KeyError"
    /\ gen.err = ""
    /\ \E i \in Unencodable(gen.code) :
          gen.code[i].op = "sta" /\ gen.code[i].mode = "iny" /\ gen.code[i].num = base_ptr

\* the same statement for the sources that store to globals only and use
\* no pointer
C30_OpcodeForEveryPairOfGlobals ==
    prg \in EncodablePrograms => C30_OpcodeForEveryPair

\* such a source has been assembled
C30_EncodableAssembled ==
    /\ phase = "assembled"
    /\ prg \in EncodablePrograms
    /\ \E i \in 1..Len(gen.code) : gen.code[i].mode = "iny"

\* the generator has failed on the addressing mode of a store through a
\* pointer
C30_PointerModeMissing ==
    /\ phase = "failed"
    /\ prg \in ThroughPointerPrograms
    /\ gen.err = "AttributeError"

====
